---- MODULE Spec2Model ----
(***************************************************************************)
(* A model of the NFL fantasy data pipeline of dev/: the adaptive rate     *)
(* limiter (data_extraction/core/rate_limiter.py), the fetchers that       *)
(* drive it, the fantasy points calculator                                 *)
(* (data_extraction/extractors/fantasy_calculator.py) and the storage      *)
(* calls it makes (data_extraction/core/database.py).                      *)
(*                                                                         *)
(* Time and intervals are integers counted in ticks of 1/Scale second, so  *)
(* that the factor 1.5 of the soft backoff is exact.                       *)
(***************************************************************************)
EXTENDS Integers, Sequences, FiniteSets, TLC

VARIABLES
    current_intervals,    \* AdaptiveRateLimiter.current_intervals: domain -> ticks
    consecutive_errors,   \* AdaptiveRateLimiter.consecutive_errors: domain -> count
    last_request_times,   \* the domains that have an entry in last_request_times
    call,                 \* the limiter call made last, with what it slept
    fetch,                \* the fetch made last: its fetcher, what the HTTP call
                          \* did and what the fetcher handed to its caller
    fetches,              \* number of fetches made
    stats,                \* the statistics dict handed to a calculate_*_points
    scoring_rules,        \* FantasyPointsCalculator.scoring_rules: name -> weight
    result,               \* what the calculate_*_points call made last returned
    stat_rows,            \* the statistics tables: table -> (player, game) -> row
    fantasy_points,       \* the fantasy_points table: its rows in insertion order
    unique_player_game,   \* whether the schema declares UNIQUE(player_id, game_id)
    stale,                \* pairs whose statistics changed after a row was stored
    db_op,                \* the storage-level operation made last
    stores,               \* number of statistics rows written
    runs,                 \* number of bulk_calculate_fantasy_points runs
    evaluation,           \* the points evaluation made last and what it returned
    evaluated,            \* what the first evaluation of each function returned
    evaluations,          \* number of points evaluations made
    table_rows,           \* the rows of a statistics table, in rowid order
    storage_op,           \* the insert made last on it and what it returned
    inserts,              \* number of inserts made
    soup,                 \* the parsed document: its tables in document order
    table_id,             \* the table_id argument of _extract_stats_table
    extracted,            \* what _extract_stats_table returned
    event,                \* the event handed to _extract_week_from_event
    week_result,          \* what _extract_week_from_event returned
    scoreboard_data,      \* the scoreboard response handed to
                          \* _process_scoreboard_data
    scoreboard_games,     \* what _process_scoreboard_data returned
    by_week,              \* _extract_games_by_week: its position in the loop
                          \* over the weeks, the weeks requested, what each
                          \* request did and the games collected
    season_games,         \* extract_games_for_season: the responses it got
                          \* and what it handed to its caller
    rosters,              \* one PlayersExtractor: the roster pages, its
                          \* extracted_players, the call made last and what
                          \* its calls returned
    validator,            \* one DataValidator: validation_errors,
                          \* validation_warnings, the validate_* call made
                          \* last and what it did
    teams_run,            \* extract_and_validate_teams: the ESPN response
                          \* it got and what it handed to its caller
    pipeline,             \* main of extract_all_data.py: its position, its
                          \* db, the connection, the teams table, the
                          \* stages it ran and its exit code
    players_db            \* extract_and_store_players on one connection:
                          \* the players table as committed and as the
                          \* open transaction sees it

limiter_vars == <<current_intervals, consecutive_errors, last_request_times,
                  call>>

fetch_vars == <<fetch, fetches>>

points_vars == <<stats, scoring_rules, result>>

bulk_vars == <<stat_rows, fantasy_points, unique_player_game, stale, db_op,
               stores, runs>>

calc_vars == <<evaluation, evaluated, evaluations>>

\* the state of the subsystems the limiter, the fetchers, the passing
\* calculation and the bulk runs leave alone
storage_vars == <<table_rows, storage_op, inserts>>

table_vars == <<soup, table_id, extracted>>

week_vars == <<event, week_result>>

scoreboard_vars == <<scoreboard_data, scoreboard_games>>

by_week_vars == <<by_week>>

\* the state of the extraction runs
run_vars == <<season_games, rosters, validator, teams_run, pipeline, players_db>>

\* what the extraction runs leave alone
idle_vars == <<calc_vars, storage_vars, table_vars, week_vars,
               scoreboard_vars, by_week_vars>>

\* run_vars without the variable named
except_season_games ==
    <<idle_vars, rosters, validator, teams_run, pipeline, players_db>>

except_rosters ==
    <<idle_vars, season_games, validator, teams_run, pipeline, players_db>>

except_validator ==
    <<idle_vars, season_games, rosters, teams_run, pipeline, players_db>>

except_teams_run ==
    <<idle_vars, season_games, rosters, validator, pipeline, players_db>>

except_pipeline ==
    <<idle_vars, season_games, rosters, validator, teams_run, players_db>>

except_players_db ==
    <<idle_vars, season_games, rosters, validator, teams_run, pipeline>>

other_vars == <<calc_vars, storage_vars, table_vars, week_vars,
                scoreboard_vars, by_week_vars, run_vars>>

vars == <<limiter_vars, fetch_vars, points_vars, bulk_vars, other_vars>>

----------------------------------------------------------------------------
(* Bounds of the model *)

\* calls that would raise a domain's error count above MaxErrors are not taken
MaxErrors == 7

\* fetches made in one run of the fetchers
MaxFetches == 4

\* statistics rows written to the statistics tables
MaxStores == 2

\* runs of bulk_calculate_fantasy_points
MaxRuns == 2

\* points evaluations made on one calculator
MaxEvaluations == 3

\* insert_data and insert_bulk_data calls made on one table
MaxInserts == 2

\* weeks of one _extract_games_by_week call whose request fails or brings no
\* game
MaxUnanswered == 2

\* extract_team_roster and extract_all_rosters_for_season calls made on one
\* PlayersExtractor
MaxRosterCalls == 3

\* error count a domain reaches before its requests succeed again
MaxLiveErrors == 3

----------------------------------------------------------------------------
(* Program constants *)

\* AdaptiveRateLimiter.__init__ defaults, in seconds
BaseSeconds == 1
MaxSeconds == 60

\* status_code = None
NoStatus == 0

\* ticks per second: a domain takes at most MaxErrors soft backoffs in a row,
\* each of which halves the grid its interval lies on
Scale == 2 ^ MaxErrors

base_interval == BaseSeconds * Scale
max_interval == MaxSeconds * Scale

\* the domain keys the extractors pass to the shared limiter
Domains == {"espn_api", "pro_football_ref"}

\* the (success, status_code) pairs reported to the limiter: the defaults, a
\* success, rate-limited responses (with either flag) and other failures
Outcomes == {<<TRUE, NoStatus>>, <<TRUE, 200>>, <<TRUE, 201>>, <<FALSE, 429>>,
             <<TRUE, 503>>, <<FALSE, 502>>, <<FALSE, NoStatus>>, <<FALSE, 500>>}

\* time.now() - last_request_times[domain], as read at the start of the wait
ElapsedChoices == {0, 3 * base_interval}

----------------------------------------------------------------------------
(* Python dict helpers *)

Get(dict, key, default) == IF key \in DOMAIN dict THEN dict[key] ELSE default

Put(dict, key, value) ==
    [k \in (DOMAIN dict) \cup {key} |-> IF k = key THEN value ELSE dict[k]]

Pop(dict, key) == [k \in (DOMAIN dict) \ {key} |-> dict[k]]

Min(a, b) == IF a <= b THEN a ELSE b

Max(a, b) == IF a >= b THEN a ELSE b

EmptyDict == [k \in {} |-> 0]

----------------------------------------------------------------------------
(* AdaptiveRateLimiter *)

RateLimitStatuses == {429, 503, 502}

OkStatuses == {200, 201}

\* a backoff computed from the error count before its increment
rate_limit_backoff_stale_count(errors) ==
    Min(base_interval * (2 ^ (errors - 1)), max_interval)

\* line 105-108: exponential backoff, capped
rate_limit_backoff(errors) == Min(base_interval * (2 ^ errors), max_interval)

\* a recovery that stays one doubling above the count
recovered_interval_one_doubling_above(errors) ==
    base_interval * (2 ^ (errors + 1))

\* line 115: interval after a success that decremented the count
recovered_interval(errors) == base_interval * (2 ^ errors)

\* a soft backoff that forgets the ceiling
soft_backoff_uncapped(current_interval) == (current_interval * 3) \div 2

\* line 120: slight backoff, capped
soft_backoff(current_interval) == Min((current_interval * 3) \div 2, max_interval)

\* line 127-133: the time slept
sleep_time(has_last, current_interval, time_since_last) ==
    IF has_last /\ current_interval - time_since_last > 0
    THEN current_interval - time_since_last
    ELSE 0

\* lines 102-120: the consecutive-error dict after the call
errors_after(errors, domain, success, status_code) ==
    IF status_code \in RateLimitStatuses
    THEN Put(errors, domain, Get(errors, domain, 0) + 1)
    ELSE IF success /\ status_code \in OkStatuses
    THEN IF domain \in DOMAIN errors /\ errors[domain] > 0
         THEN Put(errors, domain, Max(0, errors[domain] - 1))
         ELSE errors
    ELSE IF ~success
    THEN Put(errors, domain, Get(errors, domain, 0) + 1)
    ELSE errors

\* lines 99-120: the interval the call stores for the domain
interval_after(intervals, errors, domain, success, status_code) ==
    LET current_interval == Get(intervals, domain, base_interval)
        new_errors == errors_after(errors, domain, success, status_code)
    IN  IF status_code \in RateLimitStatuses
        THEN rate_limit_backoff(new_errors[domain])
        ELSE IF success /\ status_code \in OkStatuses
        THEN IF domain \in DOMAIN errors /\ errors[domain] > 0
             THEN recovered_interval(new_errors[domain])
             ELSE current_interval
        ELSE IF ~success
        THEN soft_backoff(current_interval)
        ELSE current_interval

\* the limiter's three dicts as one value
limiter == [current_intervals |-> current_intervals,
            consecutive_errors |-> consecutive_errors,
            last_request_times |-> last_request_times]

\* wait_for_request as a function of the limiter's state
wait_for_request_state(L, domain, success, status_code) ==
    [current_intervals |->
        Put(L.current_intervals, domain,
            interval_after(L.current_intervals, L.consecutive_errors,
                           domain, success, status_code)),
     consecutive_errors |->
        errors_after(L.consecutive_errors, domain, success, status_code),
     last_request_times |-> L.last_request_times \cup {domain}]

\* the record of a wait_for_request call made in state L
call_record(L, domain, success, status_code, time_since_last) ==
    LET has_last == domain \in L.last_request_times
        after == wait_for_request_state(L, domain, success, status_code)
    IN  [op |-> "wait_for_request", domain |-> domain, success |-> success,
         status_code |-> status_code, had_last |-> has_last,
         elapsed |-> IF has_last THEN time_since_last ELSE 0,
         slept |-> sleep_time(has_last, after.current_intervals[domain],
                              time_since_last)]

wait_for_request(domain, success, status_code, time_since_last) ==
    LET after == wait_for_request_state(limiter, domain, success, status_code)
    IN  /\ Get(after.consecutive_errors, domain, 0) <= MaxErrors
        /\ current_intervals' = after.current_intervals
        /\ consecutive_errors' = after.consecutive_errors
        /\ last_request_times' = after.last_request_times
        /\ call' = call_record(limiter, domain, success, status_code,
                               time_since_last)

\* a reset that forgets the last-request time
reset_domain_keeps_last_request(domain) ==
    /\ current_intervals' = Pop(current_intervals, domain)
    /\ consecutive_errors' = Pop(consecutive_errors, domain)
    /\ last_request_times' = last_request_times
    /\ call' = [op |-> "reset_domain", domain |-> domain, success |-> TRUE,
                status_code |-> 0, had_last |-> domain \in last_request_times,
                elapsed |-> 0, slept |-> 0]

reset_domain(domain) ==
    /\ current_intervals' = Pop(current_intervals, domain)
    /\ consecutive_errors' = Pop(consecutive_errors, domain)
    /\ last_request_times' = last_request_times \ {domain}
    /\ call' = [op |-> "reset_domain", domain |-> domain, success |-> TRUE,
                status_code |-> NoStatus,
                had_last |-> domain \in last_request_times,
                elapsed |-> 0, slept |-> 0]

NoCall == [op |-> "none", domain |-> "", success |-> TRUE,
           status_code |-> NoStatus, had_last |-> FALSE,
           elapsed |-> 0, slept |-> 0]

LimiterInit ==
    /\ current_intervals = EmptyDict
    /\ consecutive_errors = EmptyDict
    /\ last_request_times = {}
    /\ call = NoCall

WaitForRequest ==
    \E domain \in Domains, outcome \in Outcomes,
       time_since_last \in ElapsedChoices :
        /\ (domain \notin last_request_times => time_since_last = 0)
        /\ wait_for_request(domain, outcome[1], outcome[2], time_since_last)
        /\ UNCHANGED fetch_vars

ResetDomain ==
    \E domain \in Domains : reset_domain(domain) /\ UNCHANGED fetch_vars

----------------------------------------------------------------------------
(* The fetchers that report to the shared adaptive limiter *)

\* response.status_code of the HTTP call, when it returns
HttpStatuses == {200, 404, 429, 500, 502, 503}

\* what requests.get does: it raises (timeout, connection error) or returns
HttpResults ==
    {[raised |-> TRUE, status_code |-> NoStatus]}
    \cup {[raised |-> FALSE, status_code |-> c] : c \in HttpStatuses}

\* what the fetched document holds, when the status is 200
Documents == {"no_table", "rows"}

\* the domain key each fetcher passes to the limiter
FetcherDomain ==
    [extract_team_roster |-> "pro_football_ref",
     extract_game_stats |-> "espn_api",
     _make_request |-> "pro-football-reference.com"]

NoFetch == [fetcher |-> "none", raised |-> FALSE, status_code |-> NoStatus,
            returned |-> "none", propagated |-> FALSE]

\* the limiter after the fetcher's two calls around an HTTP call that returned
reported_state(L, domain, status_code) ==
    wait_for_request_state(wait_for_request_state(L, domain, TRUE, NoStatus),
                           domain, status_code = 200, status_code)

\* PlayersExtractor.extract_team_roster and StatsExtractor.extract_game_stats:
\* wait, GET, report the status; the except clause only logs
extractor_state(L, domain, http) ==
    IF http.raised
    THEN wait_for_request_state(L, domain, TRUE, NoStatus)
    ELSE reported_state(L, domain, http.status_code)

\* ProFootballReferenceScraper._make_request: the except clause reports a
\* failure to the limiter
make_request_state(L, domain, http) ==
    IF http.raised
    THEN wait_for_request_state(wait_for_request_state(L, domain, TRUE, NoStatus),
                                domain, FALSE, NoStatus)
    ELSE reported_state(L, domain, http.status_code)

\* the limiter call a fetch makes last, http_time after its first one
last_call(L, domain, http, reports_exception, time_since_last, http_time) ==
    LET first == wait_for_request_state(L, domain, TRUE, NoStatus)
    IN  IF http.raised /\ ~reports_exception
        THEN call_record(L, domain, TRUE, NoStatus, time_since_last)
        ELSE IF http.raised
        THEN call_record(first, domain, FALSE, NoStatus, http_time)
        ELSE call_record(first, domain, http.status_code = 200,
                         http.status_code, http_time)

\* what the fetcher returns: its empty result unless the status is 200 and
\* the document holds the data
returned_value(http, document) ==
    IF ~http.raised /\ http.status_code = 200 /\ document = "rows"
    THEN "rows"
    ELSE "empty"

Fetch(fetcher, after, last, http, document) ==
    LET domain == FetcherDomain[fetcher]
    IN  /\ fetches < MaxFetches
        /\ Get(after.consecutive_errors, domain, 0) <= MaxErrors
        /\ current_intervals' = after.current_intervals
        /\ consecutive_errors' = after.consecutive_errors
        /\ last_request_times' = after.last_request_times
        /\ call' = last
        /\ fetch' = [fetcher |-> fetcher, raised |-> http.raised,
                     status_code |-> http.status_code,
                     returned |-> returned_value(http, document),
                     propagated |-> FALSE]
        /\ fetches' = fetches + 1

extract_team_roster(http, document, time_since_last, http_time) ==
    Fetch("extract_team_roster",
          extractor_state(limiter, "pro_football_ref", http),
          last_call(limiter, "pro_football_ref", http, FALSE,
                    time_since_last, http_time),
          http, document)

extract_game_stats(http, document, time_since_last, http_time) ==
    Fetch("extract_game_stats",
          extractor_state(limiter, "espn_api", http),
          last_call(limiter, "espn_api", http, FALSE,
                    time_since_last, http_time),
          http, document)

_make_request(http, document, time_since_last, http_time) ==
    Fetch("_make_request",
          make_request_state(limiter, "pro-football-reference.com", http),
          last_call(limiter, "pro-football-reference.com", http, TRUE,
                    time_since_last, http_time),
          http, document)

ExtractTeamRoster ==
    \E http \in HttpResults, document \in Documents,
       time_since_last \in ElapsedChoices, http_time \in ElapsedChoices :
        extract_team_roster(http, document, time_since_last, http_time)

ExtractGameStats ==
    \E http \in HttpResults, document \in Documents,
       time_since_last \in ElapsedChoices, http_time \in ElapsedChoices :
        extract_game_stats(http, document, time_since_last, http_time)

MakeRequest ==
    \E http \in HttpResults, document \in Documents,
       time_since_last \in ElapsedChoices, http_time \in ElapsedChoices :
        _make_request(http, document, time_since_last, http_time)

FetchInit == fetch = NoFetch /\ fetches = 0

----------------------------------------------------------------------------
(* FantasyPointsCalculator: points are integers counted in 1/1000 point *)

\* config.FANTASY_SCORING
FANTASY_SCORING ==
    [passing_yards |-> 40, passing_tds |-> 4000, interceptions_thrown |-> -2000,
     two_point_pass |-> 2000, rushing_yards |-> 100, rushing_tds |-> 6000,
     two_point_rush |-> 2000, receiving_yards |-> 100, receptions |-> 500,
     receiving_tds |-> 6000, two_point_reception |-> 2000,
     fumbles_lost |-> -2000, tackles_solo |-> 1000, tackles_assisted |-> 500,
     sacks |-> 2000, interceptions |-> 2000, fumbles_forced |-> 2000,
     fumbles_recovered |-> 2000, passes_defended |-> 1000, safeties |-> 2000,
     defensive_tds |-> 6000, blocked_kicks |-> 2000, kick_return_tds |-> 6000,
     punt_return_tds |-> 6000]

\* round(points, 2): to the nearest 1/100 point, a tie to the even neighbour
Round2(points) ==
    LET r == points % 10
        low == points - r
    IN  IF r < 5 THEN low
        ELSE IF r > 5 THEN low + 10
        ELSE IF (low \div 10) % 2 = 0 THEN low ELSE low + 10

\* the (statistic, weight) pairs each calculate_*_points adds up, in its order
PassingTerms_interceptions_weight ==
    <<  <<"passing_yards", "passing_yards">>, <<"passing_tds", "passing_tds">>,
        <<"interceptions", "interceptions">>,
        <<"two_point_conversions", "two_point_pass">>  >>

PassingTerms ==
    <<  <<"passing_yards", "passing_yards">>, <<"passing_tds", "passing_tds">>,
        <<"interceptions", "interceptions_thrown">>,
        <<"two_point_conversions", "two_point_pass">>  >>

RushingTerms ==
    <<  <<"rushing_yards", "rushing_yards">>, <<"rushing_tds", "rushing_tds">>,
        <<"two_point_conversions", "two_point_rush">>,
        <<"fumbles_lost", "fumbles_lost">>  >>

ReceivingTerms ==
    <<  <<"receiving_yards", "receiving_yards">>, <<"receptions", "receptions">>,
        <<"receiving_tds", "receiving_tds">>,
        <<"two_point_conversions", "two_point_reception">>,
        <<"fumbles_lost", "fumbles_lost">>  >>

DefensiveTerms ==
    <<  <<"tackles_solo", "tackles_solo">>,
        <<"tackles_assisted", "tackles_assisted">>, <<"sacks", "sacks">>,
        <<"interceptions", "interceptions">>,
        <<"fumbles_forced", "fumbles_forced">>,
        <<"fumbles_recovered", "fumbles_recovered">>,
        <<"passes_defended", "passes_defended">>, <<"safeties", "safeties">>,
        <<"defensive_tds", "defensive_tds">>,
        <<"blocked_kicks", "blocked_kicks">>  >>

SpecialTeamsTerms ==
    <<  <<"kick_return_tds", "kick_return_tds">>,
        <<"punt_return_tds", "punt_return_tds">>  >>

\* points after the first n terms: points += stats.get(key, 0) * rules[weight]
RECURSIVE points_sum(_, _, _, _)
points_sum(s, rules, terms, n) ==
    IF n = 0 THEN 0
    ELSE points_sum(s, rules, terms, n - 1)
         + Get(s, terms[n][1], 0) * rules[terms[n][2]]

\* a calculator that keeps its running total between calls
calculate_points_running_total(s, rules, terms) ==
    IF \E n \in 1..Len(terms) : terms[n][2] \notin DOMAIN rules
    THEN [raised |-> TRUE, points |-> 0]
    ELSE [raised |-> FALSE,
          points |-> Round2(points_sum(s, rules, terms, Len(terms))
                            + IF evaluation.points = <<>> THEN 0
                              ELSE evaluation.points[Len(evaluation.points)])]

\* a calculate_*_points call: a KeyError when a weight it reads is missing
calculate_points(s, rules, terms) ==
    IF \E n \in 1..Len(terms) : terms[n][2] \notin DOMAIN rules
    THEN [raised |-> TRUE, points |-> 0]
    ELSE [raised |-> FALSE,
          points |-> Round2(points_sum(s, rules, terms, Len(terms)))]

calculate_passing_points(s, rules) == calculate_points(s, rules, PassingTerms)

calculate_rushing_points(s, rules) == calculate_points(s, rules, RushingTerms)

calculate_receiving_points(s, rules) == calculate_points(s, rules, ReceivingTerms)

calculate_defensive_points(s, rules) == calculate_points(s, rules, DefensiveTerms)

calculate_special_teams_points(s, rules) ==
    calculate_points(s, rules, SpecialTeamsTerms)

\* the values each key of a passing statistics dict takes; "completions" is a
\* key calculate_passing_points does not read
PassingStatValues ==
    [passing_yards |-> {0, 300, -3}, passing_tds |-> {2},
     interceptions |-> {0, 1}, two_point_conversions |-> {1},
     completions |-> {25}]

\* the dicts over any subset of those keys
PassingStatDicts ==
    UNION {{d \in [K -> {-3, 0, 1, 2, 25, 300}] :
                \A k \in K : d[k] \in PassingStatValues[k]} :
           K \in SUBSET DOMAIN PassingStatValues}

\* the league's rules, and a league that scores passing differently
RuleTables ==
    {FANTASY_SCORING,
     [FANTASY_SCORING EXCEPT !.passing_yards = 50, !.passing_tds = 6000,
                             !.interceptions_thrown = -1000]}

NoResult == [func |-> "none", raised |-> FALSE, points |-> 0]

CalculatePassingPoints ==
    /\ result = NoResult
    /\ result' = [func |-> "calculate_passing_points"]
                 @@ calculate_passing_points(stats, scoring_rules)
    /\ UNCHANGED <<stats, scoring_rules>>

\* the calculator before any call, with the configured rules
PointsIdle ==
    /\ stats = EmptyDict
    /\ scoring_rules = FANTASY_SCORING
    /\ result = NoResult

\* the calculator about to be called on any of the statistics dicts
PointsInit ==
    /\ stats \in PassingStatDicts
    /\ scoring_rules \in RuleTables
    /\ result = NoResult

----------------------------------------------------------------------------
(* Storage and bulk_calculate_fantasy_points *)

\* the players table: player_id -> position
PlayerPosition == [p \in {1, 2} |-> IF p = 1 THEN "QB" ELSE "LB"]

\* the games table: game_id -> season and week
GameRows == [g \in {1, 2} |-> [season |-> 2022 + g, week |-> 1]]

PlayerGames == (DOMAIN PlayerPosition) \X (DOMAIN GameRows)

StatTables == {"passing_stats", "rushing_stats", "receiving_stats",
               "defensive_stats", "return_stats"}

\* the rows written to the statistics tables
StatRowChoices ==
    {<<"passing_stats", [passing_yards |-> 300, passing_tds |-> 2, interceptions |-> 1]>>,
     <<"passing_stats", [passing_yards |-> 0, passing_tds |-> 0, interceptions |-> 1]>>,
     <<"rushing_stats", [rushing_yards |-> 20, rushing_tds |-> 0, fumbles_lost |-> 0]>>,
     <<"defensive_stats", [tackles_solo |-> 2, sacks |-> 0, interceptions |-> 0]>>,
     <<"return_stats", [kick_return_tds |-> 1, punt_return_tds |-> 0]>>}

\* season = None
NoSeason == 0

SeasonArguments == {NoSeason, 2023, 2024}

DEFENSIVE_POSITIONS == {"DT", "DE", "LB", "CB", "S", "DL", "DB"}

\* points of one category: 0.0 unless the table holds a row for the pair
category_points(rows, table, pg, rules, terms) ==
    IF pg \in DOMAIN rows[table]
    THEN calculate_points(rows[table][pg], rules, terms)
    ELSE [raised |-> FALSE, points |-> 0]

\* calculate_player_game_points: the breakdown, or None when a calculation
\* raised (the except clause)
calculate_player_game_points(rows, rules, pg) ==
    LET passing == category_points(rows, "passing_stats", pg, rules, PassingTerms)
        rushing == category_points(rows, "rushing_stats", pg, rules, RushingTerms)
        receiving == category_points(rows, "receiving_stats", pg, rules, ReceivingTerms)
        defensive == IF PlayerPosition[pg[1]] \in DEFENSIVE_POSITIONS
                     THEN category_points(rows, "defensive_stats", pg, rules,
                                          DefensiveTerms)
                     ELSE [raised |-> FALSE, points |-> 0]
        special == category_points(rows, "return_stats", pg, rules, SpecialTeamsTerms)
    IN  IF passing.raised \/ rushing.raised \/ receiving.raised
           \/ defensive.raised \/ special.raised
        THEN [none |-> TRUE, passing_points |-> 0, rushing_points |-> 0,
              receiving_points |-> 0, defensive_points |-> 0,
              special_teams_points |-> 0, total_points |-> 0]
        ELSE [none |-> FALSE, passing_points |-> passing.points,
              rushing_points |-> rushing.points,
              receiving_points |-> receiving.points,
              defensive_points |-> defensive.points,
              special_teams_points |-> special.points,
              total_points |-> passing.points + rushing.points + receiving.points
                               + defensive.points + special.points]

\* whether the fantasy_points rows hold one for the pair
HasRecord(table, pg) ==
    \E n \in 1..Len(table) : table[n].player_id = pg[1] /\ table[n].game_id = pg[2]

\* the query of lines 310-320. With a season the IS NULL test is part of the
\* WHERE clause; without one the text "AND fp.fantasy_id IS NULL" follows the ON
\* condition of the LEFT JOIN, no fantasy_points row satisfies it, and every
\* player-game pair is selected
player_games_query(table, season) ==
    IF season # NoSeason
    THEN {pg \in PlayerGames :
            GameRows[pg[2]].season = season /\ ~HasRecord(table, pg)}
    ELSE PlayerGames

\* ORDER BY g.season, g.week, p.player_id
OrderBefore(a, b) ==
    LET ga == GameRows[a[2]]
        gb == GameRows[b[2]]
    IN  \/ ga.season < gb.season
        \/ ga.season = gb.season /\ ga.week < gb.week
        \/ ga.season = gb.season /\ ga.week = gb.week /\ a[1] <= b[1]

RECURSIVE Ordered(_)
Ordered(S) ==
    IF S = {} THEN <<>>
    ELSE LET first == CHOOSE a \in S : \A b \in S : OrderBefore(a, b)
         IN  <<first>> \o Ordered(S \ {first})

\* line 334: if points and points['total_points'] > 0
stored_if(points) == ~points.none /\ points.total_points > 0

\* lines 335-347
fantasy_record(pg, points) ==
    [player_id |-> pg[1], game_id |-> pg[2],
     season |-> GameRows[pg[2]].season, week |-> GameRows[pg[2]].week,
     position |-> PlayerPosition[pg[1]],
     passing_points |-> points.passing_points,
     rushing_points |-> points.rushing_points,
     receiving_points |-> points.receiving_points,
     defensive_points |-> points.defensive_points,
     special_teams_points |-> points.special_teams_points,
     total_points |-> points.total_points]

\* lines 328-348: the records of the pairs, in query order
RECURSIVE fantasy_records(_, _, _, _)
fantasy_records(rows, rules, pairs, n) ==
    IF n = 0 THEN <<>>
    ELSE LET points == calculate_player_game_points(rows, rules, pairs[n])
             before == fantasy_records(rows, rules, pairs, n - 1)
         IN  IF stored_if(points)
             THEN Append(before, fantasy_record(pairs[n], points))
             ELSE before

\* rows of a table other than those of a pair
RECURSIVE without_pair(_, _, _)
without_pair(table, pg, n) ==
    IF n = 0 THEN <<>>
    ELSE IF table[n].player_id = pg[1] /\ table[n].game_id = pg[2]
    THEN without_pair(table, pg, n - 1)
    ELSE Append(without_pair(table, pg, n - 1), table[n])

\* an insert that replaces the row of a pair (INSERT OR REPLACE)
RECURSIVE insert_bulk_data_replacing(_, _, _, _)
insert_bulk_data_replacing(table, records, unique, n) ==
    IF n = 0 THEN table
    ELSE LET before == insert_bulk_data_replacing(table, records, unique, n - 1)
             pg == <<records[n].player_id, records[n].game_id>>
         IN  Append(without_pair(before, pg, Len(before)), records[n])

\* DatabaseManager.insert_bulk_data on fantasy_points: INSERT OR IGNORE of each
\* record; a record is ignored when the schema declares the pair unique and a
\* row for the pair exists
RECURSIVE insert_bulk_data(_, _, _, _)
insert_bulk_data(table, records, unique, n) ==
    IF n = 0 THEN table
    ELSE LET before == insert_bulk_data(table, records, unique, n - 1)
         IN  IF unique /\ HasRecord(before, <<records[n].player_id, records[n].game_id>>)
             THEN before
             ELSE Append(before, records[n])

bulk_calculate_fantasy_points(season) ==
    LET player_games == Ordered(player_games_query(fantasy_points, season))
        records == fantasy_records(stat_rows, scoring_rules, player_games,
                                   Len(player_games))
        after == insert_bulk_data(fantasy_points, records, unique_player_game,
                                  Len(records))
    IN  /\ runs < MaxRuns
        /\ fantasy_points' = after
        /\ db_op' = [op |-> "bulk_calculate_fantasy_points", season |-> season,
                     processed |-> {player_games[n] : n \in 1..Len(player_games)},
                     returned |-> Len(after) - Len(fantasy_points)]
        /\ runs' = runs + 1
        /\ UNCHANGED <<stat_rows, unique_player_game, stale, stores, scoring_rules>>

\* a loader writes (or rewrites) the row of a pair in a statistics table
store_stats(table, pg, row) ==
    /\ stores < MaxStores
    /\ Get(stat_rows[table], pg, EmptyDict) # row
    /\ stat_rows' = [stat_rows EXCEPT ![table] = Put(stat_rows[table], pg, row)]
    /\ stale' = IF HasRecord(fantasy_points, pg) THEN stale \cup {pg} ELSE stale
    /\ db_op' = [op |-> "store_stats", season |-> NoSeason, processed |-> {},
                 returned |-> 0]
    /\ stores' = stores + 1
    /\ UNCHANGED <<fantasy_points, unique_player_game, runs, scoring_rules>>

BulkCalculateFantasyPoints ==
    \E season \in SeasonArguments : bulk_calculate_fantasy_points(season)

StoreStats ==
    \E choice \in StatRowChoices, pg \in PlayerGames :
        store_stats(choice[1], pg, choice[2])

NoDbOp == [op |-> "none", season |-> NoSeason, processed |-> {}, returned |-> 0]

\* an empty database whose schema does not declare the pair unique
BulkIdle ==
    /\ stat_rows = [t \in StatTables |-> EmptyDict]
    /\ fantasy_points = <<>>
    /\ unique_player_game = FALSE
    /\ stale = {}
    /\ db_op = NoDbOp
    /\ stores = 0
    /\ runs = 0

\* an empty database, under either schema
BulkInit ==
    /\ stat_rows = [t \in StatTables |-> EmptyDict]
    /\ fantasy_points = <<>>
    /\ unique_player_game \in BOOLEAN
    /\ stale = {}
    /\ db_op = NoDbOp
    /\ stores = 0
    /\ runs = 0

----------------------------------------------------------------------------
(* DatabaseManager.insert_data, insert_bulk_data and query on one table.  A  *)
(* record is a python dict: the sequence of its (key, value) items in the   *)
(* order the keys were set.                                                  *)

\* SQL NULL / None
Null == 0

\* the columns of the table; the rowid is generated
TableColumns == {"player_id", "game_id", "passing_yards"}

\* the natural key of a statistics row, declared unique by the schema
UniqueColumns == {"player_id", "game_id"}

\* the dicts handed to the inserts: two rows, a row whose keys are set in
\* another order, a row with the natural key of the first and other
\* statistics, and a row with fewer keys
Records ==
    {<<  <<"player_id", 1>>, <<"game_id", 1>>, <<"passing_yards", 10>>  >>,
     <<  <<"player_id", 2>>, <<"game_id", 1>>, <<"passing_yards", 20>>  >>,
     <<  <<"game_id", 1>>, <<"player_id", 2>>, <<"passing_yards", 30>>  >>,
     <<  <<"player_id", 1>>, <<"game_id", 1>>, <<"passing_yards", 40>>  >>,
     <<  <<"player_id", 2>>, <<"game_id", 2>>  >>}

\* the lists handed to insert_bulk_data
Batches == {<<>>} \cup {<<r>> : r \in Records} \cup (Records \X Records)

\* dict.keys() and dict.values(), in the dict's order
keys(record) == [i \in 1..Len(record) |-> record[i][1]]

values(record) == [i \in 1..Len(record) |-> record[i][2]]

\* INSERT INTO t (columns) VALUES (?, ...): the i-th bound value goes to the
\* i-th named column, a column not named is NULL
bound_row(columns, bound) ==
    [c \in TableColumns |->
        IF \E i \in 1..Len(columns) : columns[i] = c
        THEN bound[CHOOSE i \in 1..Len(columns) : columns[i] = c]
        ELSE Null]

\* a row violates the unique index when a stored row has its natural key
conflicts(rows, row) ==
    \E n \in 1..Len(rows) :
        \A c \in UniqueColumns : row[c] # Null /\ rows[n][c] = row[c]

\* executemany of a plain INSERT that stores every tuple
RECURSIVE executemany_no_ignore(_, _, _, _)
executemany_no_ignore(rows, columns, values_list, n) ==
    IF n = 0 THEN rows
    ELSE Append(executemany_no_ignore(rows, columns, values_list, n - 1),
                bound_row(columns, values_list[n]))

\* executemany of INSERT OR IGNORE over the first n tuples
RECURSIVE executemany(_, _, _, _)
executemany(rows, columns, values_list, n) ==
    IF n = 0 THEN rows
    ELSE LET before == executemany(rows, columns, values_list, n - 1)
             row == bound_row(columns, values_list[n])
         IN  IF conflicts(before, row) THEN before ELSE Append(before, row)

\* insert_bulk_data on the table: the columns are the keys of the first
\* record, the tuples the values of each record in its own order; a tuple
\* that does not have one value per placeholder raises, and the rollback
\* leaves the table as it was
insert_bulk_data_on(rows, data) ==
    IF data = <<>> THEN [raised |-> FALSE, rows |-> rows, returned |-> 0]
    ELSE LET columns == keys(data[1])
             values_list == [n \in 1..Len(data) |-> values(data[n])]
         IN  IF \E n \in 1..Len(data) : Len(values_list[n]) # Len(columns)
             THEN [raised |-> TRUE, rows |-> rows, returned |-> 0]
             ELSE LET after == executemany(rows, columns, values_list, Len(data))
                  IN  [raised |-> FALSE, rows |-> after,
                       returned |-> Len(after) - Len(rows)]

\* insert_data: one INSERT; a row whose natural key is stored raises
insert_data(rows, data) ==
    LET row == bound_row(keys(data), values(data))
    IN  IF conflicts(rows, row)
        THEN [raised |-> TRUE, rows |-> rows, returned |-> 0]
        ELSE [raised |-> FALSE, rows |-> Append(rows, row),
              returned |-> Len(rows) + 1]

\* query("SELECT * FROM t"): the stored rows, by column name, in rowid order
query(rows) == rows

NoStorageOp ==
    [op |-> "none", data |-> <<>>, raised |-> FALSE, added |-> 0,
     reapplied |-> FALSE]

insert(op, data, outcome) ==
    /\ inserts < MaxInserts
    /\ table_rows' = outcome.rows
    /\ storage_op' = [op |-> op, data |-> data, raised |-> outcome.raised,
                      added |-> Len(outcome.rows) - Len(table_rows),
                      reapplied |-> /\ op = "insert_bulk_data"
                                    /\ storage_op.op = op
                                    /\ ~storage_op.raised
                                    /\ storage_op.data = data]
    /\ inserts' = inserts + 1
    /\ UNCHANGED <<calc_vars, table_vars, week_vars, scoreboard_vars,
                   by_week_vars, run_vars>>

InsertBulkData ==
    \E data \in Batches :
        insert("insert_bulk_data", data, insert_bulk_data_on(table_rows, data))

InsertData ==
    \E data \in Records :
        insert("insert_data", <<data>>, insert_data(table_rows, data))

StorageIdle ==
    /\ table_rows = <<>>
    /\ storage_op = NoStorageOp
    /\ inserts = 0

----------------------------------------------------------------------------
(* ProFootballReferenceScraper._extract_stats_table.  A document is the     *)
(* sequence of its tables; a table has an id, a class, the texts of its     *)
(* header cells and its body rows; a body row has a class and its cells; a  *)
(* cell has a text and the href of its link ("" without one).               *)

\* table_id = None
NoTableId == ""

Cell(text, href) == [text |-> text, href |-> href]

BodyRow(class, cells) == [class |-> class, cells |-> cells]

\* hrefs that contain '/players/'
PlayerHrefs == {"/players/B/BradTo00.htm"}

\* texts t for which t.replace('-', '').replace('.', '').isdigit()
DigitTexts == {"1", "12", "4.5", "1-2"}

\* of those, the texts with a '.' that float() accepts and the texts without
\* one that int() accepts; int("1-2") raises ValueError
FloatTexts == {"4.5"}

IntTexts == {"1", "12"}

NoneValue == [type |-> "None", text |-> ""]

\* lines 199-209: the value stored for a cell text
convert(text) ==
    IF text \in DigitTexts
    THEN IF text \in FloatTexts THEN [type |-> "float", text |-> text]
         ELSE IF text \in IntTexts THEN [type |-> "int", text |-> text]
         ELSE [type |-> "str", text |-> text]
    ELSE IF text = "" THEN NoneValue
    ELSE [type |-> "str", text |-> text]

\* f'col_{len(headers)}'
col_name(k) == <<"col_0", "col_1", "col_2", "col_3", "col_4", "col_5">>[k + 1]

\* lines 156-164: the column names after the first n header cells
RECURSIVE header_list(_, _)
header_list(cells, n) ==
    IF n = 0 THEN <<>>
    ELSE LET headers == header_list(cells, n - 1)
             text == cells[n]
         IN  IF text # "" /\ text # "Rk" THEN Append(headers, text)
             ELSE IF text = "" THEN Append(headers, col_name(Len(headers)))
             ELSE headers

\* lines 195-197: the href of the last cell whose link is a player link
player_link_of(cells) ==
    LET linked == {i \in 1..Len(cells) : cells[i].href \in PlayerHrefs}
    IN  IF linked = {} THEN ""
        ELSE cells[CHOOSE i \in linked : \A j \in linked : j <= i].href

\* lines 188-215: the converted cell texts, then the player link if one was found
row_data(cells) ==
    [i \in 1..Len(cells) |-> convert(cells[i].text)]
    \o (IF player_link_of(cells) # ""
        THEN <<[type |-> "str", text |-> player_link_of(cells)]>>
        ELSE <<>>)

\* lines 179-218: the row_data of the first n body rows; rows of class
\* 'thead' and rows without cells are skipped
RECURSIVE data_rows(_, _)
data_rows(body, n) ==
    IF n = 0 THEN <<>>
    ELSE IF body[n].class = "thead" \/ body[n].cells = <<>>
    THEN data_rows(body, n - 1)
    ELSE Append(data_rows(body, n - 1), row_data(body[n].cells))

\* a row left at the length it was read with
fit_unchanged(row, width) == row

\* lines 229-240: pad with None or trim to the number of headers
fit(row, width) ==
    IF Len(row) < width
    THEN row \o [i \in 1..(width - Len(row)) |-> NoneValue]
    ELSE SubSeq(row, 1, width)

FirstWhere(S) == IF S = {} THEN 0 ELSE CHOOSE i \in S : \A j \in S : i <= j

\* a lookup that falls back to the first table when no table has the id
find_table_first_table_fallback(document, id) ==
    IF id # NoTableId
    THEN IF \E i \in 1..Len(document) : document[i].id = id
         THEN FirstWhere({i \in 1..Len(document) : document[i].id = id})
         ELSE IF Len(document) > 0 THEN 1 ELSE 0
    ELSE LET stats_table ==
                 FirstWhere({i \in 1..Len(document) :
                                document[i].class = "stats_table"})
         IN  IF stats_table # 0 THEN stats_table
             ELSE IF Len(document) > 0 THEN 1 ELSE 0

\* lines 133-140: the index of the table used, 0 when none is found
find_table(document, id) ==
    IF id # NoTableId
    THEN FirstWhere({i \in 1..Len(document) : document[i].id = id})
    ELSE LET stats_table ==
                 FirstWhere({i \in 1..Len(document) :
                                document[i].class = "stats_table"})
         IN  IF stats_table # 0 THEN stats_table
             ELSE IF Len(document) > 0 THEN 1 ELSE 0

NoFrame(warning, table) ==
    [called |-> TRUE, none |-> TRUE, warning |-> warning, table |-> table,
     headers |-> <<>>, rows |-> <<>>]

\* _extract_stats_table: None with the warning logged, or the frame's column
\* names and rows (and, for reference, the index of the table it read)
_extract_stats_table(document, id) ==
    LET table == find_table(document, id)
    IN  IF table = 0 THEN NoFrame("No stats table found", 0)
        ELSE
        LET header_cells == document[table].header
            headers == header_list(header_cells, Len(header_cells))
            body == document[table].rows
            rows == data_rows(body, Len(body))
            final == IF \E k \in 1..Len(rows) : Len(rows[k]) > Len(headers)
                     THEN Append(headers, "player_link")
                     ELSE headers
        IN  IF headers = <<>> THEN NoFrame("No valid headers found", table)
            ELSE IF rows = <<>> THEN NoFrame("No data rows found", table)
            ELSE [called |-> TRUE, none |-> FALSE, warning |-> "",
                  table |-> table, headers |-> final,
                  rows |-> [k \in 1..Len(rows) |-> fit(rows[k], Len(final))]]

\* the cells of the pages
Name == Cell("Tom Brady", "/players/B/BradTo00.htm")

Team == Cell("TAM", "/teams/tam/2021.htm")

Number(text) == Cell(text, "")

\* header rows: plain, with a rank cell, with an empty cell, six columns,
\* and a header row with no usable cell
HeaderRows ==
    {<<"Player", "Yds">>, <<"Rk", "Player", "Yds">>, <<"Player", "", "Yds">>,
     <<"Player", "Tm", "G", "Att", "Yds", "TD">>, <<"Rk">>}

\* body rows: complete and ragged, with and without a player link, a
\* repeated header row and a row without cells
BodyRows ==
    {BodyRow("", <<Name, Number("12")>>),
     BodyRow("", <<Number("1"), Name, Number("12")>>),
     BodyRow("", <<Team, Number("4.5")>>),
     BodyRow("", <<Name>>),
     BodyRow("", <<Number("1-2")>>),
     BodyRow("", <<Name, Team, Number("12"), Number("")>>),
     BodyRow("", <<Name, Team, Number("1"), Number("12"), Number("4.5"),
                   Number("1")>>),
     BodyRow("", <<Team, Number("1"), Number("12")>>),
     BodyRow("thead", <<Number("Player"), Number("Yds")>>),
     BodyRow("", <<>>)}

Bodies == {<<>>} \cup {<<r>> : r \in BodyRows} \cup (BodyRows \X BodyRows)

\* a table that is not the one looked for
OtherTable ==
    [id |-> "div_other", class |-> "", header |-> <<"Team", "W">>,
     rows |-> <<BodyRow("", <<Team, Number("12")>>)>>]

\* the documents: no table, the table alone (with the id 'stats', with the
\* class 'stats_table', or with neither), and the table after another one
Documents_of(header, body) ==
    LET table(id, class) ==
            [id |-> id, class |-> class, header |-> header, rows |-> body]
    IN  {<<>>,
         <<table("stats", "stats_table")>>,
         <<table("passing", "")>>,
         <<OtherTable, table("stats", "")>>,
         <<OtherTable, table("passing", "stats_table")>>}

TableIds == {NoTableId, "stats"}

NoExtraction ==
    [called |-> FALSE, none |-> TRUE, warning |-> "", table |-> 0,
     headers |-> <<>>, rows |-> <<>>]

ExtractStatsTable ==
    /\ ~extracted.called
    /\ extracted' = _extract_stats_table(soup, table_id)
    /\ UNCHANGED <<soup, table_id, calc_vars, storage_vars, week_vars,
                   scoreboard_vars, by_week_vars, run_vars>>

\* no page fetched
TableIdle ==
    /\ soup = <<>>
    /\ table_id = NoTableId
    /\ extracted = NoExtraction

\* a fetched page about to be read, with or without a table id
TableInit ==
    /\ \E header \in HeaderRows, body \in Bodies :
           soup \in Documents_of(header, body)
    /\ table_id \in TableIds
    /\ extracted = NoExtraction

----------------------------------------------------------------------------
(* GamesExtractor._extract_week_from_event.  A JSON value is a record of    *)
(* its type and, for a number or a string of digits, the number it denotes: *)
(* "none" is an absent key or null, "int" a number, "digits" a string that  *)
(* int() accepts, "text" any other non-empty string.                        *)

Value(type, number) == [type |-> type, number |-> number]

Absent == Value("none", 0)

\* python truth of a value: None and 0 are false
truthy(v) == v.type # "none" /\ ~(v.type = "int" /\ v.number = 0)

\* return None
NoWeek == -1

\* how a stage ends: it returned a week, it raised, or it fell through
Returned(week) == [ended |-> "returned", week |-> week]

Raised == [ended |-> "raised", week |-> NoWeek]

FellThrough == [ended |-> "fell_through", week |-> NoWeek]

\* lines 250-260 and 268-278: a 'week' entry that is a dict with a number,
\* or a number or string itself.  int() of the number of a dict is not
\* guarded; int() of a string entry is
week_entry(entry) ==
    IF entry.kind = "dict"
    THEN IF truthy(entry.value)
         THEN IF entry.value.type = "text" THEN Raised
              ELSE Returned(entry.value.number)
         ELSE FellThrough
    ELSE IF entry.kind = "scalar" /\ entry.value.type \in {"int", "digits"}
    THEN Returned(entry.value.number)
    ELSE FellThrough

\* lines 263-278: competitions[0].week
competition_week(e) ==
    IF e.competitions = <<>> THEN FellThrough
    ELSE week_entry(e.competitions[1].week)

\* lines 281-294: season.week, then a season.slug of digits
season_week(e) ==
    IF ~e.season.present THEN FellThrough
    ELSE IF truthy(e.season.week) /\ e.season.week.type # "text"
    THEN Returned(e.season.week.number)
    ELSE IF e.season.slug.type = "digits" THEN Returned(e.season.slug.number)
    ELSE FellThrough

\* lines 297-317: weeks since the first Thursday of September of season.year;
\* days is the distance of the game date from that Thursday
date_week(e) ==
    IF e.date.kind = "absent" THEN FellThrough
    ELSE IF e.date.kind = "malformed" THEN Raised
    ELSE IF ~(e.season.present /\ truthy(e.season.year)) THEN FellThrough
    ELSE LET week_num == (e.date.days \div 7) + 1
         IN  IF 1 <= week_num /\ week_num <= 22 THEN Returned(week_num)
             ELSE FellThrough

\* the words that isdigit() accepts and the numbers they denote
WordNumber == ("2" :> 2) @@ ("8" :> 8) @@ ("9" :> 9)

\* lines 324-330: the digits after the first word 'Week' that is followed by
\* digits; a text is the sequence of its words
text_week(words) ==
    LET found == {i \in 1..(Len(words) - 1) :
                    words[i] = "Week" /\ words[i + 1] \in DOMAIN WordNumber}
    IN  IF found = {} THEN FellThrough
        ELSE Returned(WordNumber[words[FirstWhere(found) + 1]])

\* the stages in the order of the code: the first that does not fall through
\* decides; a raise is caught by the except clause, which returns None
RECURSIVE first_ended(_, _)
first_ended(stages, n) ==
    IF n > Len(stages) THEN FellThrough
    ELSE IF stages[n].ended # "fell_through" THEN stages[n]
    ELSE first_ended(stages, n + 1)

\* _extract_week_from_event: the week, or None
_extract_week_from_event(e) ==
    LET end == first_ended(<<week_entry(e.week), competition_week(e),
                             season_week(e), date_week(e), text_week(e.name),
                             text_week(e.shortName)>>, 1)
    IN  [called |-> TRUE, week |-> end.week, raised |-> end.ended = "raised"]

Entry(kind, value) == [kind |-> kind, value |-> value]

NoEntry == Entry("absent", Absent)

\* event['week'] and competition['week']: absent, a dict with a number, a
\* dict without one, a dict whose number is not numeric, a string of digits,
\* another string
WeekEntries ==
    {NoEntry, Entry("dict", Value("int", 3)), Entry("dict", Absent),
     Entry("dict", Value("text", 0)), Entry("scalar", Value("digits", 5)),
     Entry("scalar", Value("text", 0))}

CompetitionLists ==
    {<<>>, <<[week |-> NoEntry]>>, <<[week |-> Entry("dict", Value("int", 4))]>>,
     <<[week |-> Entry("dict", Value("text", 0))]>>}

SeasonInfo(present, week, slug, year) ==
    [present |-> present, week |-> week, slug |-> slug, year |-> year]

SeasonInfos ==
    {SeasonInfo(FALSE, Absent, Absent, Absent),
     SeasonInfo(TRUE, Value("int", 6), Absent, Value("int", 2024)),
     SeasonInfo(TRUE, Value("text", 0), Value("digits", 7), Value("int", 2024)),
     SeasonInfo(TRUE, Absent, Value("text", 0), Value("int", 2024)),
     SeasonInfo(TRUE, Absent, Value("text", 0), Absent)}

\* event['date']: absent, a date 15 days after the first Thursday of
\* September, one 200 days after it, one 10 days before it, and a string
\* fromisoformat rejects
Dates ==
    {[kind |-> "absent", days |-> 0], [kind |-> "valid", days |-> 15],
     [kind |-> "valid", days |-> 200], [kind |-> "valid", days |-> -10],
     [kind |-> "malformed", days |-> 0]}

Names == {<<"Chiefs", "at", "Bills">>, <<"Week", "8">>,
          <<"Week", "Eight", "Week", "9">>}

ShortNames == {<<"KC", "@", "BUF">>, <<"Week", "2">>}

Events ==
    [week : WeekEntries, competitions : CompetitionLists, season : SeasonInfos,
     date : Dates, name : Names, shortName : ShortNames]

NoEvent ==
    [week |-> NoEntry, competitions |-> <<>>,
     season |-> SeasonInfo(FALSE, Absent, Absent, Absent),
     date |-> [kind |-> "absent", days |-> 0], name |-> <<>>,
     shortName |-> <<>>]

NoWeekResult == [called |-> FALSE, week |-> NoWeek, raised |-> FALSE]

ExtractWeekFromEvent ==
    /\ ~week_result.called
    /\ week_result' = _extract_week_from_event(event)
    /\ UNCHANGED <<event, calc_vars, storage_vars, table_vars, scoreboard_vars,
                   by_week_vars, run_vars>>

WeekIdle ==
    /\ event = NoEvent
    /\ week_result = NoWeekResult

WeekInit ==
    /\ event \in Events
    /\ week_result = NoWeekResult

----------------------------------------------------------------------------
(* GamesExtractor._process_scoreboard_data and _process_single_game *)

\* self.team_mappings: team code -> team id
team_mappings == ("KC" :> 1) @@ ("BUF" :> 2) @@ ("WAS" :> 3)

\* str.upper() on the abbreviations of the responses
upper(abbreviation) ==
    IF abbreviation = "kc" THEN "KC" ELSE abbreviation

\* lines 182-186: the team code of a competitor
team_code(competitor) ==
    IF upper(competitor.abbreviation) = "WSH" THEN "WAS"
    ELSE upper(competitor.abbreviation)

\* a field of the game record that is None
NoneText == "None"

\* lines 180-197: home_team / away_team after the loop over the competitors:
\* the last competitor marked 'home', the last one not marked 'home'
last_team(competitors, home) ==
    LET marked == {i \in 1..Len(competitors) :
                      (competitors[i].homeAway = "home") = home}
    IN  IF marked = {} THEN ""
        ELSE team_code(competitors[CHOOSE i \in marked :
                                      \A j \in marked : j <= i])

\* lines 188-190: int(score) of a score that is not None
int_score(score) ==
    IF score.type = "none" THEN Absent ELSE Value("int", score.number)

last_score(competitors, home) ==
    LET marked == {i \in 1..Len(competitors) :
                      (competitors[i].homeAway = "home") = home}
    IN  IF marked = {} THEN Absent
        ELSE int_score(competitors[CHOOSE i \in marked :
                                      \A j \in marked : j <= i].score)

NoGame == [none |-> TRUE, raised |-> FALSE]

\* _process_single_game: the game record, or None; an exception is caught by
\* the except clause, which returns None
_process_single_game(e) ==
    IF ~truthy(e.id) THEN NoGame
    ELSE IF e.date.kind = "absent" THEN NoGame
    ELSE IF e.date.kind = "malformed" THEN [none |-> TRUE, raised |-> TRUE]
    ELSE IF e.competitions = <<>> THEN NoGame
    ELSE
    LET competition == e.competitions[1]
        competitors == competition.competitors
        home_team == last_team(competitors, TRUE)
        away_team == last_team(competitors, FALSE)
        home_score == last_score(competitors, TRUE)
        away_score == last_score(competitors, FALSE)
    IN  IF Len(competitors) # 2 THEN NoGame
        ELSE IF \E i \in 1..2 : competitors[i].score.type = "text"
        THEN [none |-> TRUE, raised |-> TRUE]
        ELSE IF home_team = "" \/ away_team = "" THEN NoGame
        ELSE IF home_team \notin DOMAIN team_mappings
                \/ away_team \notin DOMAIN team_mappings
        THEN NoGame
        ELSE [none |-> FALSE, raised |-> FALSE,
              nfl_game_id |-> e.id.number,
              week |-> _extract_week_from_event(e).week,
              home_team_id |-> team_mappings[home_team],
              away_team_id |-> team_mappings[away_team],
              home_score |-> IF competition.completed THEN home_score
                             ELSE Absent,
              away_score |-> IF competition.completed THEN away_score
                             ELSE Absent,
              completed |-> competition.completed,
              venue_name |-> IF competition.venue.present
                             THEN competition.venue.fullName ELSE NoneText]

\* a loop that an event without a record ends
RECURSIVE process_events_until_invalid(_, _)
process_events_until_invalid(events, n) ==
    IF n = 0 THEN <<>>
    ELSE IF \E k \in 1..n : _process_single_game(events[k]).none
    THEN process_events_until_invalid(events, n - 1)
    ELSE Append(process_events_until_invalid(events, n - 1),
                _process_single_game(events[n]))

\* lines 125-128: the games of the first n events
RECURSIVE process_events(_, _)
process_events(events, n) ==
    IF n = 0 THEN <<>>
    ELSE LET games == process_events(events, n - 1)
             game == _process_single_game(events[n])
         IN  IF game.none THEN games ELSE Append(games, game)

\* _process_scoreboard_data: the games; an empty list without 'events'
_process_scoreboard_data(response) ==
    [called |-> TRUE,
     games |-> IF ~response.has_events THEN <<>>
               ELSE process_events(response.events, Len(response.events))]

Competitor(abbreviation, homeAway, score) ==
    [abbreviation |-> abbreviation, homeAway |-> homeAway, score |-> score]

Venue(present, fullName) == [present |-> present, fullName |-> fullName]

Competition(week, competitors, completed, venue) ==
    [week |-> week, competitors |-> competitors, completed |-> completed,
     venue |-> venue]

GameEvent(id, date, week, competitions, season, name) ==
    [id |-> id, date |-> date, week |-> week, competitions |-> competitions,
     season |-> season, name |-> name, shortName |-> <<"KC", "@", "BUF">>]

ValidDate == [kind |-> "valid", days |-> 15]

NoSeasonInfo == SeasonInfo(FALSE, Absent, Absent, Absent)

Final(home, home_score, away, away_score) ==
    <<Competition(Entry("dict", Value("int", 3)),
                  <<Competitor(home, "home", Value("digits", home_score)),
                    Competitor(away, "away", Value("digits", away_score))>>,
                  TRUE, Venue(TRUE, "Arrowhead Stadium"))>>

\* events with every required item
CompleteEvents ==
    {GameEvent(Value("digits", 401), ValidDate, NoEntry,
               Final("KC", 24, "BUF", 20), NoSeasonInfo,
               <<"Bills", "at", "Chiefs">>),
     GameEvent(Value("digits", 402), ValidDate, Entry("scalar", Value("digits", 5)),
               Final("BUF", 17, "WSH", 31), NoSeasonInfo,
               <<"Commanders", "at", "Bills">>),
     \* no score, no venue, no week, not completed
     GameEvent(Value("digits", 403), ValidDate, NoEntry,
               <<Competition(NoEntry,
                             <<Competitor("BUF", "away", Absent),
                               Competitor("kc", "home", Absent)>>,
                             FALSE, Venue(FALSE, ""))>>,
               NoSeasonInfo, <<"Bills", "at", "Chiefs">>)}

\* events that lack a required item: the id, the date, a date that parses,
\* the competition, the second competitor, the away team, a known team
IncompleteEvents ==
    {GameEvent(Absent, ValidDate, NoEntry, Final("KC", 24, "BUF", 20),
               NoSeasonInfo, <<"Week", "8">>),
     GameEvent(Value("digits", 404), [kind |-> "absent", days |-> 0], NoEntry,
               Final("KC", 24, "BUF", 20), NoSeasonInfo, <<"Week", "8">>),
     GameEvent(Value("digits", 405), [kind |-> "malformed", days |-> 0], NoEntry,
               Final("KC", 24, "BUF", 20), NoSeasonInfo, <<"Week", "8">>),
     GameEvent(Value("digits", 406), ValidDate, NoEntry, <<>>, NoSeasonInfo,
               <<"Week", "8">>),
     GameEvent(Value("digits", 407), ValidDate, NoEntry,
               <<Competition(NoEntry, <<Competitor("KC", "home", Absent)>>,
                             FALSE, Venue(FALSE, ""))>>,
               NoSeasonInfo, <<"Week", "8">>),
     GameEvent(Value("digits", 408), ValidDate, NoEntry,
               <<Competition(NoEntry,
                             <<Competitor("KC", "home", Absent),
                               Competitor("BUF", "home", Absent)>>,
                             FALSE, Venue(FALSE, ""))>>,
               NoSeasonInfo, <<"Week", "8">>),
     GameEvent(Value("digits", 409), ValidDate, NoEntry,
               Final("KC", 24, "XXX", 20), NoSeasonInfo, <<"Week", "8">>)}

GameEvents == CompleteEvents \cup IncompleteEvents

\* the responses: without 'events', and with up to three events
Responses ==
    {[has_events |-> FALSE, events |-> <<>>]}
    \cup {[has_events |-> TRUE, events |-> events] :
            events \in {<<>>} \cup {<<e>> : e \in GameEvents}
                       \cup (GameEvents \X GameEvents)
                       \cup (GameEvents \X GameEvents \X GameEvents)}

NoScoreboardGames == [called |-> FALSE, games |-> <<>>]

ProcessScoreboardData ==
    /\ ~scoreboard_games.called
    /\ scoreboard_games' = _process_scoreboard_data(scoreboard_data)
    /\ UNCHANGED <<scoreboard_data, calc_vars, storage_vars, table_vars,
                   week_vars, by_week_vars, run_vars>>

ScoreboardIdle ==
    /\ scoreboard_data = [has_events |-> FALSE, events |-> <<>>]
    /\ scoreboard_games = NoScoreboardGames

ScoreboardInit ==
    /\ scoreboard_data \in Responses
    /\ scoreboard_games = NoScoreboardGames

----------------------------------------------------------------------------
(* GamesExtractor._extract_games_by_week *)

\* the default of the max_week parameter
max_week == 22

\* "Regular season typically ends at week 18"
RegularSeasonWeeks == 18

\* what the request for one week does: it raises (requests.get,
\* raise_for_status or response.json()), its response holds no game, or it
\* holds games
WeekOutcomes == {"failed", "empty", "games"}

\* the loop state after the statement that leaves the iteration of week w:
\* break ends the loop, continue and the end of the body go to the next week
after_week(l, stops) ==
    IF stops \/ l.week = max_week
    THEN [l EXCEPT !.pc = "returned"]
    ELSE [l EXCEPT !.week = l.week + 1]

\* an iteration whose except clause ends the loop at every week
iteration_failure_ends_loop(l, outcome) ==
    LET requested == [l EXCEPT !.requested = l.requested \cup {l.week},
                               !.last_request_times = {"espn_api"}]
    IN  IF outcome = "failed"
        THEN after_week([requested EXCEPT !.failed = l.failed \cup {l.week}],
                        TRUE)
        ELSE IF outcome = "empty"
        THEN after_week([requested EXCEPT !.empty = l.empty \cup {l.week}],
                        l.week > RegularSeasonWeeks)
        ELSE after_week([requested EXCEPT !.games = Append(l.games, l.week)],
                        FALSE)

\* lines 351-382: one iteration of the loop, for week l.week
iteration(l, outcome) ==
    LET requested == [l EXCEPT !.requested = l.requested \cup {l.week},
                               !.last_request_times = {"espn_api"}]
    IN  IF outcome = "failed"
        THEN after_week([requested EXCEPT !.failed = l.failed \cup {l.week}],
                        l.week > RegularSeasonWeeks)
        ELSE IF outcome = "empty"
        THEN after_week([requested EXCEPT !.empty = l.empty \cup {l.week}],
                        l.week > RegularSeasonWeeks)
        ELSE after_week([requested EXCEPT !.games = Append(l.games, l.week)],
                        FALSE)

\* before the call
NotCalled ==
    [pc |-> "idle", week |-> 0, requested |-> {}, failed |-> {},
     empty |-> {}, games |-> <<>>, last_request_times |-> {}]

\* _extract_games_by_week is called: games = [], the loop starts at week 1
ExtractGamesByWeek ==
    /\ by_week.pc = "idle"
    /\ by_week' = [by_week EXCEPT !.pc = "loop", !.week = 1]
    /\ UNCHANGED <<calc_vars, storage_vars, table_vars, week_vars,
                   scoreboard_vars, run_vars>>

\* the iteration for the next week; the games of a week are written as the
\* week's number
RequestWeek ==
    \E outcome \in WeekOutcomes :
        /\ by_week.pc = "loop"
        /\ outcome # "games" =>
               Cardinality(by_week.failed \cup by_week.empty) < MaxUnanswered
        /\ by_week' = iteration(by_week, outcome)
        /\ UNCHANGED <<calc_vars, storage_vars, table_vars, week_vars,
                       scoreboard_vars, run_vars>>

ByWeekIdle == by_week = NotCalled

----------------------------------------------------------------------------
(* GamesExtractor.extract_games_for_season *)

\* "Minimum expected games per season"
MinimumExpectedGames == 250

\* what a scoreboard request does: requests.get raises, raise_for_status
\* raises, response.json() raises, or the body is parsed; a parsed response
\* is written as the nfl_game_ids of the games _process_scoreboard_data makes
\* of it, with the number of further games, each of an id of its own
FailedRequest(kind) == [kind |-> kind, ids |-> <<>>, others |-> 0]

Parsed(ids, others) == [kind |-> "ok", ids |-> ids, others |-> others]

GameIdLists == {<<>>, <<401>>, <<402>>, <<401, 402>>, <<401, 401>>}

RegularResponses ==
    {FailedRequest(kind) : kind \in {"network", "status", "body"}}
    \cup {Parsed(ids, others) : ids \in GameIdLists,
                                others \in {0, MinimumExpectedGames}}

PlayoffResponses ==
    {FailedRequest(kind) : kind \in {"network", "status", "body"}}
    \cup {Parsed(ids, 0) : ids \in GameIdLists}

\* the answers to the requests for weeks 1 and 2; every other week's
\* response holds no game
WeekResponses ==
    {FailedRequest("network")}
    \cup {Parsed(ids, 0) : ids \in {<<>>, <<401>>, <<403>>}}

week_outcome(response) ==
    IF response.kind # "ok" THEN "failed"
    ELSE IF response.ids = <<>> THEN "empty"
    ELSE "games"

\* the loop of _extract_games_by_week from state l to its return
RECURSIVE run_weeks(_, _)
run_weeks(l, weekly) ==
    IF l.pc = "returned" THEN l
    ELSE run_weeks(iteration(l, IF l.week \in DOMAIN weekly
                                THEN week_outcome(weekly[l.week])
                                ELSE "empty"),
                   weekly)

\* games.extend(week_games) over the weeks that brought games
RECURSIVE week_games(_, _)
week_games(weeks, weekly) ==
    IF weeks = <<>> THEN <<>>
    ELSE weekly[Head(weeks)].ids \o week_games(Tail(weeks), weekly)

\* what _extract_games_by_week(season) returns
additional_games(weekly) ==
    week_games(run_weeks([NotCalled EXCEPT !.pc = "loop", !.week = 1],
                         weekly).games,
               weekly)

\* lines 91-95: the merge; existing_game_ids is computed once, before the loop
merge(ids, additional) ==
    LET existing_game_ids == {ids[i] : i \in 1..Len(ids)}
    IN  ids \o SelectSeq(additional, LAMBDA id : id \notin existing_game_ids)

\* a season extraction that lets a failure of the playoff request out
extract_games_for_season_playoffs_required(regular, playoff, weekly) ==
    IF regular.kind # "ok" \/ playoff.kind # "ok"
    THEN [called |-> TRUE, raised |-> TRUE, games |-> <<>>, others |-> 0,
          regular |-> regular, playoff |-> playoff, weekly |-> weekly]
    ELSE [called |-> TRUE, raised |-> FALSE,
          games |-> merge(regular.ids \o playoff.ids, additional_games(weekly)),
          others |-> regular.others,
          regular |-> regular, playoff |-> playoff, weekly |-> weekly]

\* extract_games_for_season: what it hands to its caller
extract_games_for_season(regular, playoff, weekly) ==
    IF regular.kind # "ok"
    THEN [called |-> TRUE, raised |-> TRUE, games |-> <<>>, others |-> 0,
          regular |-> regular, playoff |-> playoff, weekly |-> weekly]
    ELSE
    LET games == regular.ids \o (IF playoff.kind = "ok" THEN playoff.ids
                                 ELSE <<>>)
    IN  [called |-> TRUE, raised |-> FALSE,
         games |-> IF Len(games) + regular.others < MinimumExpectedGames
                   THEN merge(games, additional_games(weekly))
                   ELSE games,
         others |-> regular.others,
         regular |-> regular, playoff |-> playoff, weekly |-> weekly]

NoSeasonGames ==
    [called |-> FALSE, raised |-> FALSE, games |-> <<>>, others |-> 0,
     regular |-> Parsed(<<>>, 0), playoff |-> Parsed(<<>>, 0),
     weekly |-> <<>>]

ExtractGamesForSeason ==
    \E regular \in RegularResponses, playoff \in PlayoffResponses,
       weekly \in WeekResponses \X WeekResponses :
        /\ ~season_games.called
        /\ season_games' = extract_games_for_season(regular, playoff, weekly)
        /\ UNCHANGED except_season_games

SeasonIdle == season_games = NoSeasonGames


----------------------------------------------------------------------------
(* PlayersExtractor: the roster rows and the set of extracted players *)

\* the teams of config.NFL_TEAMS the rosters are extracted for
RosterTeams == <<"BUF", "KC">>

RosterSeasons == {2023, 2024}

\* a row of the roster table: the texts of its name and position cells and
\* of its jersey cell
RosterRow(name, position, jersey) ==
    [name |-> name, position |-> position, jersey |-> jersey]

\* position.upper().strip()
upper_position(position) ==
    IF position = "qb" THEN "QB" ELSE position

\* position.split('/')[0] when '/' is in the position
first_position(position) ==
    IF position = "HB/TE" THEN "HB" ELSE position

\* position_mappings.get(position, position)
mapped_position(position) ==
    IF position \in {"HB", "FB"} THEN "RB" ELSE position

_normalize_position(position) ==
    mapped_position(first_position(upper_position(position)))

\* _process_player_row: the player of a row, or None
NoPlayer == [none |-> TRUE]

_process_player_row(row, code, season) ==
    IF row.name = "" \/ row.position = "" THEN NoPlayer
    ELSE [none |-> FALSE, name |-> row.name,
          position |-> _normalize_position(row.position),
          team |-> code, jersey_number |-> row.jersey,
          season_extracted |-> season]

player_key(player) ==
    <<player.name, player.position, player.season_extracted>>

\* a row loop in which the later row of a key replaces the earlier one
RECURSIVE roster_rows_last_wins(_, _, _, _)
roster_rows_last_wins(rows, code, season, state) ==
    IF rows = <<>> THEN state
    ELSE
    LET player == _process_player_row(Head(rows), code, season)
        kept == SelectSeq(state.players,
                          LAMBDA q : player.none
                                     \/ player_key(q) # player_key(player))
        next == IF player.none THEN state
                ELSE [players |-> Append(kept, player),
                      extracted_players |->
                          state.extracted_players \cup {player_key(player)}]
    IN  roster_rows_last_wins(Tail(rows), code, season, next)

\* lines 78-87: the loop over the rows; state holds the players list and
\* self.extracted_players
RECURSIVE roster_rows(_, _, _, _)
roster_rows(rows, code, season, state) ==
    IF rows = <<>> THEN state
    ELSE
    LET player == _process_player_row(Head(rows), code, season)
        next == IF player.none
                   \/ player_key(player) \in state.extracted_players
                THEN state
                ELSE [players |-> Append(state.players, player),
                      extracted_players |->
                          state.extracted_players \cup {player_key(player)}]
    IN  roster_rows(Tail(rows), code, season, next)

\* extract_team_roster as a function of self.extracted_players: the players
\* returned and the set after the call; a page that was not fetched gives no
\* player
roster_of(pages, extracted_players, code, season, fetched) ==
    IF ~fetched
    THEN [players |-> <<>>, extracted_players |-> extracted_players]
    ELSE roster_rows(pages[code], code, season,
                     [players |-> <<>>,
                      extracted_players |-> extracted_players])

\* lines 328-338: the loop of extract_all_rosters_for_season over the first
\* n teams
RECURSIVE all_rosters(_, _, _, _, _)
all_rosters(pages, extracted_players, n, season, fetched) ==
    IF n = 0
    THEN [players |-> <<>>, extracted_players |-> extracted_players]
    ELSE
    LET before == all_rosters(pages, extracted_players, n - 1, season,
                              fetched)
        team == roster_of(pages, before.extracted_players, RosterTeams[n],
                          season, fetched[n])
    IN  [players |-> before.players \o team.players,
         extracted_players |-> team.extracted_players]

Mahomes == RosterRow("Mahomes", "QB", 15)

\* the roster pages of the teams: the rows of their roster tables
RosterPages ==
    {[BUF |-> <<RosterRow("Allen", "QB", 17)>>,
      KC |-> <<Mahomes, RosterRow("Pacheco", "HB", 10)>>],
     \* a key repeated on one page, with another jersey
     [BUF |-> <<RosterRow("Allen", "QB", 17)>>,
      KC |-> <<Mahomes, RosterRow("Mahomes", "qb", 5)>>],
     \* a key repeated on the other team's page, after normalisation
     [BUF |-> <<RosterRow("Cook", "HB/TE", 4), RosterRow("Cook", "FB", 28)>>,
      KC |-> <<RosterRow("Cook", "RB", 20)>>],
     \* a row without a position, and a name under two positions
     [BUF |-> <<RosterRow("Allen", "", 17), RosterRow("Allen", "QB", 17)>>,
      KC |-> <<RosterRow("Allen", "TE", 80)>>],
     [BUF |-> <<>>, KC |-> <<Mahomes>>]}

NoRosterCall ==
    [op |-> "none", season |-> 0, fetched |-> <<>>, players |-> <<>>]

\* the PlayersExtractor after __init__, for given pages
NewPlayersExtractor(pages) ==
    [pages |-> pages, extracted_players |-> {}, last |-> NoRosterCall,
     returned |-> <<>>, first_run |-> [season \in RosterSeasons |-> NoRosterCall],
     calls |-> 0]

\* one extract_team_roster call; returned collects what the calls returned
ExtractRoster ==
    \E n \in 1..Len(RosterTeams), season \in RosterSeasons,
       fetched \in BOOLEAN :
        LET after == roster_of(rosters.pages, rosters.extracted_players,
                               RosterTeams[n], season, fetched)
        IN  /\ rosters.calls < MaxRosterCalls
            /\ rosters' =
                 [rosters EXCEPT
                    !.extracted_players = after.extracted_players,
                    !.last = [op |-> "extract_team_roster",
                              season |-> season, fetched |-> <<fetched>>,
                              players |-> after.players],
                    !.returned = rosters.returned \o after.players,
                    !.calls = rosters.calls + 1]
            /\ UNCHANGED except_rosters

\* one extract_all_rosters_for_season call; first_run keeps what the first
\* run of each season returned
ExtractAllRostersForSeason ==
    \E season \in RosterSeasons,
       fetched \in [1..Len(RosterTeams) -> BOOLEAN] :
        LET after == all_rosters(rosters.pages, rosters.extracted_players,
                                 Len(RosterTeams), season, fetched)
            run == [op |-> "extract_all_rosters_for_season",
                    season |-> season, fetched |-> fetched,
                    players |-> after.players]
        IN  /\ rosters.calls < MaxRosterCalls
            /\ rosters' =
                 [rosters EXCEPT
                    !.extracted_players = after.extracted_players,
                    !.last = run,
                    !.returned = rosters.returned \o after.players,
                    !.first_run =
                        IF rosters.first_run[season].op = "none"
                        THEN [rosters.first_run EXCEPT ![season] = run]
                        ELSE rosters.first_run,
                    !.calls = rosters.calls + 1]
            /\ UNCHANGED except_rosters

RostersIdle == rosters = NewPlayersExtractor([BUF |-> <<>>, KC |-> <<>>])

RostersInit == \E pages \in RosterPages : rosters = NewPlayersExtractor(pages)


----------------------------------------------------------------------------
(* DataValidator *)

\* A record is a function from its keys to values; an integer n is
\* Value("int", n), None is Absent, a string is Value("text", k) with k its
\* rank among the strings.  The entries of validation_errors and
\* validation_warnings are written <<check, index of the record, what>>.

\* config.VALIDATION_THRESHOLDS
VALIDATION_THRESHOLDS ==
    [min_games_per_season |-> 250, max_games_per_season |-> 285,
     max_passing_yards_game |-> 600,
     min_rushing_yards_game |-> -20, max_rushing_yards_game |-> 400,
     min_receiving_yards_game |-> 0, max_receiving_yards_game |-> 350]

\* dict.get(key, 0)
get0(d, key) == IF key \in DOMAIN d THEN d[key] ELSE Value("int", 0)

\* a < b and a > b raise TypeError unless both are numbers or both strings
comparable(a, b) == a.type = b.type /\ a.type \in {"int", "text"}

less(a, b) == a.number < b.number

\* the fields validate_stats_data requires of a stat_type
required_stat_fields(stat_type) ==
    IF stat_type = "passing"
    THEN {"player_id", "game_id", "attempts", "completions", "passing_yards"}
    ELSE IF stat_type = "rushing"
    THEN {"player_id", "game_id", "attempts", "rushing_yards"}
    ELSE IF stat_type = "receiving"
    THEN {"player_id", "game_id", "targets", "receptions", "receiving_yards"}
    ELSE IF stat_type = "defensive"
    THEN {"player_id", "game_id", "tackles_total"}
    ELSE IF stat_type = "kicking"
    THEN {"player_id", "game_id", "field_goals_attempted"}
    ELSE {"player_id", "game_id"}

\* the loops "for field in required: if field not in record": their errors
missing_fields(records, required) ==
    UNION {{<<"missing", i, f>> : f \in required \ DOMAIN records[i]} :
              i \in 1..Len(records)}

\* the yardage test "yards < lo or yards > hi": whether it raises, and
\* whether it holds
range_raises(v) == v.type # "int"

out_of_range(v, lo, hi) == v.number < lo \/ v.number > hi

YardsField(stat_type) ==
    IF stat_type = "passing" THEN "passing_yards"
    ELSE IF stat_type = "rushing" THEN "rushing_yards"
    ELSE "receiving_yards"

MinYards(stat_type) ==
    IF stat_type = "passing" THEN 0
    ELSE IF stat_type = "rushing"
    THEN VALIDATION_THRESHOLDS.min_rushing_yards_game
    ELSE VALIDATION_THRESHOLDS.min_receiving_yards_game

MaxYards(stat_type) ==
    IF stat_type = "passing"
    THEN VALIDATION_THRESHOLDS.max_passing_yards_game
    ELSE IF stat_type = "rushing"
    THEN VALIDATION_THRESHOLDS.max_rushing_yards_game
    ELSE VALIDATION_THRESHOLDS.max_receiving_yards_game

\* the count test of one record: the two counts it compares, or none
Counts(stat_type, d) ==
    IF stat_type = "passing"
    THEN <<get0(d, "completions"), get0(d, "attempts")>>
    ELSE <<get0(d, "receptions"), get0(d, "targets")>>

\* lines 219-222, 238-242: "completions > attempts" and
\* "targets > 0 and receptions > targets"
count_test(stat_type, d) ==
    LET more == Counts(stat_type, d)[1]
        of == Counts(stat_type, d)[2]
    IN  IF stat_type = "passing"
        THEN [raises |-> ~comparable(more, of),
              holds |-> comparable(more, of) /\ less(of, more)]
        ELSE IF stat_type = "receiving"
        THEN IF of.type # "int" THEN [raises |-> TRUE, holds |-> FALSE]
             ELSE IF ~(of.number > 0) THEN [raises |-> FALSE, holds |-> FALSE]
             ELSE [raises |-> ~comparable(more, of),
                   holds |-> comparable(more, of) /\ less(of, more)]
        ELSE [raises |-> FALSE, holds |-> FALSE]

\* whether the range loop raises at record d, and in which of its tests
stat_raises(stat_type, d) ==
    \/ range_raises(get0(d, YardsField(stat_type)))
    \/ count_test(stat_type, d).raises

\* the first record at which a loop raises; Len + 1 when none does
first_raising(records, Raises(_)) ==
    IF \E i \in 1..Len(records) : Raises(records[i])
    THEN CHOOSE i \in 1..Len(records) :
            /\ Raises(records[i])
            /\ \A j \in 1..(i - 1) : ~Raises(records[j])
    ELSE Len(records) + 1

\* what a validate_* call did: whether it raised, what it returned, and the
\* entries it appended
Validation(raised, added_errors, added_warnings) ==
    [raised |-> raised,
     returned |-> ~raised /\ added_errors = {},
     added_errors |-> added_errors, added_warnings |-> added_warnings]

\* validate_stats_data(stats, stat_type)
validate_stats_data(records, stat_type) ==
    IF records = <<>>
    THEN Validation(FALSE, {}, {<<"empty", 0, stat_type>>})
    ELSE
    LET ranged == stat_type \in {"passing", "rushing", "receiving"}
        stop == IF ranged
                THEN first_raising(records,
                                   LAMBDA d : stat_raises(stat_type, d))
                ELSE Len(records) + 1
        \* the record at which the loop raises gets its yardage warning when
        \* the count test is the one that raises
        warned == {i \in 1..Len(records) :
                     /\ ranged
                     /\ i <= stop
                     /\ ~range_raises(get0(records[i], YardsField(stat_type)))
                     /\ out_of_range(get0(records[i], YardsField(stat_type)),
                                     MinYards(stat_type), MaxYards(stat_type))}
        inconsistent == {i \in 1..Len(records) :
                           /\ ranged
                           /\ i < stop
                           /\ count_test(stat_type, records[i]).holds}
    IN  Validation(stop <= Len(records),
                   missing_fields(records, required_stat_fields(stat_type))
                   \cup {<<"counts", i, stat_type>> : i \in inconsistent},
                   {<<"yards", i, stat_type>> : i \in warned})

\* "if total < -10 or total > 60"
MinPoints == -10

MaxPoints == 60

\* validate_fantasy_points(fantasy_points)
validate_fantasy_points(records) ==
    IF records = <<>>
    THEN Validation(FALSE, {}, {<<"empty", 0, "fantasy_points">>})
    ELSE
    LET stop == first_raising(records,
                    LAMBDA d : range_raises(get0(d, "total_points")))
        warned == {i \in 1..Len(records) :
                     /\ i < stop
                     /\ out_of_range(get0(records[i], "total_points"),
                                     MinPoints, MaxPoints)}
    IN  Validation(stop <= Len(records),
                   missing_fields(records,
                                  {"player_id", "game_id", "total_points"}),
                   {<<"points", i, "total_points">> : i \in warned})

\* "if weeks and (min(weeks) < 1 or max(weeks) > 22)"
MinWeek == 1

MaxWeek == 22

\* the fields validate_game_data requires
required_game_fields ==
    {"season", "week", "game_date", "home_team_id", "away_team_id"}

\* validate_game_data(games, season); a game_date is Value("date", year)
\* when it is a date or a string strptime accepts, anything else otherwise
validate_game_data(records, year) ==
    IF records = <<>>
    THEN Validation(FALSE, {<<"empty", 0, "games">>}, {})
    ELSE
    LET count_warning ==
            IF Len(records) < VALIDATION_THRESHOLDS.min_games_per_season
               \/ Len(records) > VALIDATION_THRESHOLDS.max_games_per_season
            THEN {<<"count", 0, "games">>} ELSE {}
        required ==
            UNION {{<<"missing", i, f>> :
                      f \in {g \in required_game_fields :
                               \/ g \notin DOMAIN records[i]
                               \/ records[i][g].type = "none"}} :
                   i \in 1..Len(records)}
        seasons_in_data ==
            {records[i]["season"] :
                i \in {j \in 1..Len(records) : "season" \in DOMAIN records[j]}}
        weeks ==
            {records[i]["week"] :
                i \in {j \in 1..Len(records) :
                         /\ "week" \in DOMAIN records[j]
                         /\ records[j]["week"].type # "none"}}
        \* min(weeks) < 1 raises on a week that is no number
        raised == \E w \in weeks : w.type # "int"
        week_warning ==
            IF ~raised /\ \E w \in weeks : out_of_range(w, MinWeek, MaxWeek)
            THEN {<<"weeks", 0, "games">>} ELSE {}
        dated == {i \in 1..Len(records) :
                    /\ "game_date" \in DOMAIN records[i]
                    /\ truthy(records[i]["game_date"])}
    IN  Validation(raised,
                   required
                   \cup (IF Cardinality(seasons_in_data) > 1
                         THEN {<<"seasons", 0, "games">>} ELSE {})
                   \cup (IF raised THEN {}
                         ELSE {<<"date", i, "format">> :
                                 i \in {j \in dated :
                                    records[j]["game_date"].type # "date"}}),
                   count_warning \cup week_warning
                   \cup (IF raised THEN {}
                         ELSE {<<"date", i, "year">> :
                                 i \in {j \in dated :
                                    /\ records[j]["game_date"].type = "date"
                                    /\ records[j]["game_date"].number
                                           \notin {year, year + 1}}}))

\* the positions validate_player_data expects
valid_positions ==
    {"QB", "RB", "WR", "TE", "K", "DEF", "DT", "DE", "LB", "CB", "S", "DL",
     "DB", "P", "LS"}

\* "field not in d or not d[field]": the fields of these records are
\* strings, the empty string standing for every false value
lacks(d, f) == f \notin DOMAIN d \/ d[f] = ""

\* dict.get(key, '')
get_text(d, key) == IF key \in DOMAIN d THEN d[key] ELSE ""

\* validate_player_data(players)
validate_player_data(records) ==
    IF records = <<>>
    THEN Validation(FALSE, {<<"empty", 0, "players">>}, {})
    ELSE
    LET key_of(d) == <<get_text(d, "name"), get_text(d, "position"),
                       get_text(d, "team_id")>>
    IN  Validation(FALSE,
            UNION {{<<"missing", i, f>> :
                      f \in {g \in {"name", "position"} :
                               lacks(records[i], g)}} :
                   i \in 1..Len(records)},
            (IF \E i \in 1..Len(records) :
                    /\ "position" \in DOMAIN records[i]
                    /\ records[i]["position"] \notin valid_positions
             THEN {<<"positions", 0, "players">>} ELSE {})
            \cup {<<"duplicate", i, "players">> :
                    i \in {j \in 1..Len(records) :
                             \E k \in 1..(j - 1) :
                                key_of(records[k]) = key_of(records[j])}})

NflTeam(code, name, conference, division) ==
    [team_code |-> code, name |-> name, conference |-> conference,
     division |-> division]

\* config.NFL_TEAMS, in the order of its keys
NFL_TEAMS ==
    <<NflTeam("ARI", "Arizona Cardinals", "NFC", "West"),
     NflTeam("ATL", "Atlanta Falcons", "NFC", "South"),
     NflTeam("BAL", "Baltimore Ravens", "AFC", "North"),
     NflTeam("BUF", "Buffalo Bills", "AFC", "East"),
     NflTeam("CAR", "Carolina Panthers", "NFC", "South"),
     NflTeam("CHI", "Chicago Bears", "NFC", "North"),
     NflTeam("CIN", "Cincinnati Bengals", "AFC", "North"),
     NflTeam("CLE", "Cleveland Browns", "AFC", "North"),
     NflTeam("DAL", "Dallas Cowboys", "NFC", "East"),
     NflTeam("DEN", "Denver Broncos", "AFC", "West"),
     NflTeam("DET", "Detroit Lions", "NFC", "North"),
     NflTeam("GB", "Green Bay Packers", "NFC", "North"),
     NflTeam("HOU", "Houston Texans", "AFC", "South"),
     NflTeam("IND", "Indianapolis Colts", "AFC", "South"),
     NflTeam("JAX", "Jacksonville Jaguars", "AFC", "South"),
     NflTeam("KC", "Kansas City Chiefs", "AFC", "West"),
     NflTeam("LV", "Las Vegas Raiders", "AFC", "West"),
     NflTeam("LAC", "Los Angeles Chargers", "AFC", "West"),
     NflTeam("LAR", "Los Angeles Rams", "NFC", "West"),
     NflTeam("MIA", "Miami Dolphins", "AFC", "East"),
     NflTeam("MIN", "Minnesota Vikings", "NFC", "North"),
     NflTeam("NE", "New England Patriots", "AFC", "East"),
     NflTeam("NO", "New Orleans Saints", "NFC", "South"),
     NflTeam("NYG", "New York Giants", "NFC", "East"),
     NflTeam("NYJ", "New York Jets", "AFC", "East"),
     NflTeam("PHI", "Philadelphia Eagles", "NFC", "East"),
     NflTeam("PIT", "Pittsburgh Steelers", "AFC", "North"),
     NflTeam("SF", "San Francisco 49ers", "NFC", "West"),
     NflTeam("SEA", "Seattle Seahawks", "NFC", "West"),
     NflTeam("TB", "Tampa Bay Buccaneers", "NFC", "South"),
     NflTeam("TEN", "Tennessee Titans", "AFC", "South"),
     NflTeam("WAS", "Washington Commanders", "NFC", "East")>>

\* "if len(teams) != 32"
ExpectedTeams == 32

\* validate_team_data(teams)
validate_team_data(records) ==
    LET team_codes ==
            {records[i]["team_code"] :
                i \in {j \in 1..Len(records) : "team_code" \in DOMAIN records[j]}}
        expected_codes == {NFL_TEAMS[i].team_code : i \in 1..Len(NFL_TEAMS)}
        conferences ==
            {records[i]["conference"] :
                i \in {j \in 1..Len(records) :
                         "conference" \in DOMAIN records[j]}}
    IN  Validation(FALSE,
            (IF Len(records) # ExpectedTeams
             THEN {<<"team_count", 0, "teams">>} ELSE {})
            \cup UNION {{<<"missing", i, f>> :
                            f \in {g \in {"team_code", "team_name",
                                          "conference", "division"} :
                                     lacks(records[i], g)}} :
                         i \in 1..Len(records)}
            \cup (IF expected_codes \ team_codes # {}
                  THEN {<<"codes", 0, "missing">>} ELSE {})
            \cup (IF ~(conferences \subseteq {"AFC", "NFC"})
                  THEN {<<"conferences", 0, "teams">>} ELSE {}),
            IF team_codes \ expected_codes # {}
            THEN {<<"codes", 0, "unexpected">>} ELSE {})

----------------------------------------------------------------------------
(* The lists handed to the validate_* methods *)

Num(n) == Value("int", n)

Text == Value("text", 1)

\* the lists of up to two of the records of S
UpToTwo(S) == {<<>>} \cup {<<d>> : d \in S} \cup (S \X S)

Without(d, key) == [k \in DOMAIN d \ {key} |-> d[k]]

PassingStat(yards, completions, attempts) ==
    [player_id |-> Num(1), game_id |-> Num(1), attempts |-> attempts,
     completions |-> completions, passing_yards |-> yards]

PassingStats ==
    {PassingStat(Num(250), Num(20), Num(30)),
     PassingStat(Num(700), Num(20), Num(30)),
     PassingStat(Num(250), Num(40), Num(30)),
     PassingStat(Absent, Num(20), Num(30)),
     PassingStat(Text, Num(20), Num(30)),
     PassingStat(Num(700), Absent, Num(30)),
     Without(PassingStat(Num(250), Num(20), Num(30)), "attempts")}

RushingStat(yards) ==
    [player_id |-> Num(1), game_id |-> Num(1), attempts |-> Num(12),
     rushing_yards |-> yards]

RushingStats ==
    {RushingStat(Num(80)), RushingStat(Num(-30)), RushingStat(Absent),
     Without(RushingStat(Num(80)), "rushing_yards")}

ReceivingStat(yards, receptions, targets) ==
    [player_id |-> Num(1), game_id |-> Num(1), targets |-> targets,
     receptions |-> receptions, receiving_yards |-> yards]

ReceivingStats ==
    {ReceivingStat(Num(90), Num(5), Num(8)),
     ReceivingStat(Num(400), Num(5), Num(8)),
     ReceivingStat(Num(90), Num(9), Num(8)),
     ReceivingStat(Num(90), Num(3), Num(0)),
     ReceivingStat(Num(90), Num(3), Absent),
     ReceivingStat(Num(90), Absent, Num(8)),
     Without(ReceivingStat(Num(90), Num(5), Num(8)), "receptions")}

KickingStats ==
    {[player_id |-> Num(1), game_id |-> Num(1),
      field_goals_attempted |-> Num(2)],
     [player_id |-> Num(1), game_id |-> Num(1)]}

\* the (stats, stat_type) arguments of validate_stats_data
StatsArguments ==
    {<<l, "passing">> : l \in UpToTwo(PassingStats)}
    \cup {<<l, "rushing">> : l \in UpToTwo(RushingStats)}
    \cup {<<l, "receiving">> : l \in UpToTwo(ReceivingStats)}
    \cup {<<l, "kicking">> : l \in UpToTwo(KickingStats)}

FantasyPoints(total) ==
    [player_id |-> Num(1), game_id |-> Num(1), total_points |-> total]

FantasyPointsLists ==
    UpToTwo({FantasyPoints(Num(12)), FantasyPoints(Num(75)),
             FantasyPoints(Absent), FantasyPoints(Text),
             Without(FantasyPoints(Num(12)), "total_points")})

Game(year, week_number, game_date) ==
    [season |-> Num(year), week |-> week_number, game_date |-> game_date,
     home_team_id |-> Num(1), away_team_id |-> Num(2)]

GameLists ==
    UpToTwo({Game(2023, Num(5), Value("date", 2023)),
             Game(2023, Num(0), Value("date", 2024)),
             Game(2023, Num(25), Value("date", 2021)),
             Game(2023, Absent, Value("date", 2023)),
             Game(2023, Text, Value("date", 2023)),
             Game(2023, Num(5), Text),
             Game(2022, Num(5), Absent),
             Without(Game(2023, Num(5), Value("date", 2023)),
                     "home_team_id")})

Player(name, position) ==
    [name |-> name, position |-> position, team_id |-> "1"]

PlayerLists ==
    UpToTwo({Player("Mahomes", "QB"), Player("Kelce", "TE"),
             Player("Smith", "OL"), Player("", "QB"),
             Without(Player("Jones", "DT"), "position")})

\* the team record made of an entry of NFL_TEAMS and a name
TeamRecord(n, team_name) ==
    [team_code |-> NFL_TEAMS[n].team_code, team_name |-> team_name,
     conference |-> NFL_TEAMS[n].conference,
     division |-> NFL_TEAMS[n].division]

\* TeamsExtractor._get_static_teams
_get_static_teams ==
    [n \in 1..Len(NFL_TEAMS) |-> TeamRecord(n, NFL_TEAMS[n].name)]

AllTeams == _get_static_teams

TeamLists ==
    {AllTeams,
     <<>>,
     SubSeq(AllTeams, 1, Len(AllTeams) - 1),
     \* a code twice
     [AllTeams EXCEPT ![2] = AllTeams[1]],
     [AllTeams EXCEPT ![2]["team_name"] = ""],
     [AllTeams EXCEPT ![2]["conference"] = "XFC"],
     [AllTeams EXCEPT ![2]["team_code"] = "XXX"],
     Append(AllTeams, [AllTeams[1] EXCEPT !["team_code"] = "XXX"]),
     [AllTeams EXCEPT ![2] = Without(AllTeams[2], "division")]}

NoValidation ==
    [method |-> "none", records |-> <<>>, kind |-> "",
     raised |-> FALSE, returned |-> FALSE,
     added_errors |-> {}, added_warnings |-> {}]

\* a DataValidator with the entries earlier calls left
DataValidator(validation_errors, validation_warnings) ==
    [validation_errors |-> validation_errors,
     validation_warnings |-> validation_warnings, last |-> NoValidation]

\* a validate_* call on a list of records whose result is v
validate(method, records, kind, v) ==
    /\ validator.last.method = "none"
    /\ validator' =
         [validation_errors |-> validator.validation_errors \cup v.added_errors,
          validation_warnings |->
              validator.validation_warnings \cup v.added_warnings,
          last |-> [method |-> method, records |-> records, kind |-> kind,
                    raised |-> v.raised,
                    returned |-> v.returned,
                    added_errors |-> v.added_errors,
                    added_warnings |-> v.added_warnings]]
    /\ UNCHANGED except_validator

ValidateStatsData ==
    \E a \in StatsArguments :
        validate("validate_stats_data", a[1], a[2],
                 validate_stats_data(a[1], a[2]))

ValidateFantasyPoints ==
    \E l \in FantasyPointsLists :
        validate("validate_fantasy_points", l, "fantasy_points",
                 validate_fantasy_points(l))

ValidateGameData ==
    \E l \in GameLists :
        validate("validate_game_data", l, "games",
                 validate_game_data(l, 2023))

ValidatePlayerData ==
    \E l \in PlayerLists :
        validate("validate_player_data", l, "players",
                 validate_player_data(l))

ValidateTeamData ==
    \E l \in TeamLists :
        validate("validate_team_data", l, "teams", validate_team_data(l))

ValidatorIdle == validator = DataValidator({}, {})

ValidatorInit ==
    validator \in {DataValidator({}, {}),
                   DataValidator({<<"earlier", 0, "call">>},
                                 {<<"earlier", 0, "call">>})}

----------------------------------------------------------------------------
(* TeamsExtractor.extract_and_validate_teams *)

\* team_data.get('abbreviation', '').upper()
upper_abbreviation(abbreviation) ==
    IF abbreviation = "wsh" THEN "WSH" ELSE abbreviation

\* espn_to_standard.get(abbreviation, abbreviation)
espn_to_standard(abbreviation) ==
    IF abbreviation = "WSH" THEN "WAS" ELSE abbreviation

\* _process_espn_team: the team of an entry of the response, or None
_process_espn_team(team_data) ==
    LET code == espn_to_standard(upper_abbreviation(team_data["abbreviation"]))
        known == {n \in 1..Len(NFL_TEAMS) : NFL_TEAMS[n].team_code = code}
    IN  IF known = {} THEN <<>>
        ELSE LET n == CHOOSE k \in known : TRUE
             IN  <<TeamRecord(n, IF "displayName" \in DOMAIN team_data
                                 THEN team_data["displayName"]
                                 ELSE NFL_TEAMS[n].name)>>

RECURSIVE processed_teams(_)
processed_teams(entries) ==
    IF entries = <<>> THEN <<>>
    ELSE _process_espn_team(Head(entries)) \o processed_teams(Tail(entries))

\* extract_teams_from_espn: the teams of the response, the static teams
\* when the request failed
extract_teams_from_espn(response) ==
    IF response.failed THEN _get_static_teams
    ELSE processed_teams(response.teams)

\* extract_and_validate_teams: it raises or hands its teams to the caller
extract_and_validate_teams(response) ==
    LET espn_teams == extract_teams_from_espn(response)
    IN  IF validate_team_data(espn_teams).returned
           \/ Len(espn_teams) = ExpectedTeams
        THEN [called |-> TRUE, raised |-> FALSE, teams |-> espn_teams,
              response |-> response]
        ELSE [called |-> TRUE,
              raised |-> ~validate_team_data(_get_static_teams).returned,
              teams |-> IF validate_team_data(_get_static_teams).returned
                        THEN _get_static_teams ELSE <<>>,
              response |-> response]

TeamData(abbreviation, displayName) ==
    [abbreviation |-> abbreviation, displayName |-> displayName]

\* the response with every team of the league
EspnTeams ==
    [n \in 1..Len(NFL_TEAMS) |->
        TeamData(NFL_TEAMS[n].team_code, NFL_TEAMS[n].name)]

EspnResponse(entries) == [failed |-> FALSE, teams |-> entries]

\* the responses: the request fails; every team; one entry without or with
\* an empty displayName, with the code of another, with an unknown code,
\* left out; Washington under ESPN's code
EspnResponses ==
    {[failed |-> TRUE, teams |-> <<>>], EspnResponse(EspnTeams),
     EspnResponse(<<>>)}
    \cup {EspnResponse([EspnTeams EXCEPT ![k]["displayName"] = ""]) :
            k \in 1..Len(EspnTeams)}
    \cup {EspnResponse([EspnTeams EXCEPT ![k] = Without(@, "displayName")]) :
            k \in 1..Len(EspnTeams)}
    \cup {EspnResponse([EspnTeams EXCEPT ![k] = EspnTeams[1]]) :
            k \in 2..Len(EspnTeams)}
    \cup {EspnResponse([EspnTeams EXCEPT ![k]["abbreviation"] = "XXX"]) :
            k \in 1..Len(EspnTeams)}
    \cup {EspnResponse(SubSeq(EspnTeams, 1, k - 1)
                       \o SubSeq(EspnTeams, k + 1, Len(EspnTeams))) :
            k \in 1..Len(EspnTeams)}
    \cup {EspnResponse([EspnTeams EXCEPT ![Len(EspnTeams)]["abbreviation"] = a]) :
            a \in {"WSH", "wsh"}}

NoTeamsRun ==
    [called |-> FALSE, raised |-> FALSE, teams |-> <<>>,
     response |-> EspnResponse(<<>>)]

ExtractAndValidateTeams ==
    \E response \in EspnResponses :
        /\ ~teams_run.called
        /\ teams_run' = extract_and_validate_teams(response)
        /\ UNCHANGED except_teams_run

TeamsIdle == teams_run = NoTeamsRun

----------------------------------------------------------------------------
(* main of extract_all_data.py *)

\* initialize_database: DatabaseManager(), connect(), execute_schema()
InitializeOutcomes == {"ok", "connect_raises", "execute_schema_raises"}

\* the codes of the teams extract_and_validate_teams hands over
TeamCodes == {NFL_TEAMS[n].team_code : n \in 1..Len(NFL_TEAMS)}

\* the teams whose insert_data call succeeds: none, all, all but one
InsertedTeams ==
    {{}, TeamCodes} \cup {TeamCodes \ {c} : c \in TeamCodes}

\* the teams table before the run: empty, or filled by an earlier run
TeamTables == {{}, TeamCodes}

\* extract_and_store_teams: the result dictionary and the teams table
\* after it; "stored" are the teams whose insert succeeded
extract_and_store_teams(table, extraction_raises, stored, select_raises) ==
    IF extraction_raises
    THEN [success |-> FALSE, count |-> 0, mappings |-> {}, table |-> table]
    ELSE IF select_raises
    THEN [success |-> FALSE, count |-> 0, mappings |-> {},
          table |-> table \cup stored]
    ELSE [success |-> TRUE, count |-> Cardinality(stored),
          mappings |-> table \cup stored, table |-> table \cup stored]

\* DatabaseManager.disconnect
disconnect(connection) == IF connection = "open" THEN "closed" ELSE connection

\* "finally: if db: db.disconnect()", then the return
main_returns(p, exit_code) ==
    [p EXCEPT !.pc = "returned", !.exit_code = exit_code,
              !.connection = IF p.db THEN disconnect(p.connection)
                             ELSE p.connection]

NewPipeline(table) ==
    [pc |-> "initialize", db |-> FALSE, connection |-> "none",
     teams_table |-> table, extracted |-> FALSE, inserted_count |-> 0,
     mappings |-> {}, stages |-> <<>>, exit_code |-> 0]

\* "db = initialize_database()": when it raises, db stays None
InitializeDatabase ==
    \E outcome \in InitializeOutcomes :
        /\ pipeline.pc = "initialize"
        /\ pipeline' =
              IF outcome = "ok"
              THEN [pipeline EXCEPT !.pc = "teams", !.db = TRUE,
                                    !.connection = "open"]
              ELSE main_returns(
                       [pipeline EXCEPT !.connection =
                            IF outcome = "connect_raises" THEN "none"
                            ELSE "open"], 1)
        /\ UNCHANGED except_pipeline

\* "teams_result = extract_and_store_teams(db, logger)" and the test of
\* its success
ExtractAndStoreTeams ==
    \E extraction_raises \in BOOLEAN, stored \in InsertedTeams,
       select_raises \in BOOLEAN :
        LET teams_result ==
                extract_and_store_teams(pipeline.teams_table,
                                        extraction_raises, stored,
                                        select_raises)
            ran == [pipeline EXCEPT
                       !.stages = Append(@, "teams"),
                       !.extracted = ~extraction_raises,
                       !.inserted_count = teams_result.count,
                       !.teams_table = teams_result.table,
                       !.mappings = teams_result.mappings]
        IN  /\ pipeline.pc = "teams"
            /\ extraction_raises => stored = {}
            /\ pipeline' = IF ~teams_result.success THEN main_returns(ran, 1)
                           ELSE [ran EXCEPT !.pc = "games"]
            /\ UNCHANGED except_pipeline

\* extract_and_store_games: main only warns when it failed
ExtractAndStoreGames ==
    \E success \in BOOLEAN :
        /\ pipeline.pc = "games"
        /\ pipeline' = [pipeline EXCEPT !.pc = "players",
                                        !.stages = Append(@, "games")]
        /\ UNCHANGED except_pipeline

\* extract_and_store_players: main only warns when it failed
ExtractAndStorePlayers ==
    \E success \in BOOLEAN :
        /\ pipeline.pc = "players"
        /\ pipeline' = [pipeline EXCEPT !.pc = "validate",
                                        !.stages = Append(@, "players")]
        /\ UNCHANGED except_pipeline

\* validate_database_completeness, "return 0" and the finally block
ValidateDatabaseCompleteness ==
    /\ pipeline.pc = "validate"
    /\ pipeline' = main_returns(
                       [pipeline EXCEPT !.stages = Append(@, "validate")], 0)
    /\ UNCHANGED except_pipeline

PipelineIdle == pipeline = NewPipeline({})

PipelineInit == \E table \in TeamTables : pipeline = NewPipeline(table)

----------------------------------------------------------------------------
(* extract_and_store_players on one sqlite3 connection *)

\* the players of one extraction: extract_all_rosters_for_season returns
\* each (name, position) once
MaxPlayers == 3

PlayerNames == 1..MaxPlayers

TeamIds == {1, 2}

\* the outcomes of the statements issued for one player
StoreOutcomes == {"ok", "select_raises", "insert_raises"}

\* the players tables before the run: name -> team_id of the stored players
PlayerTables ==
    UNION {[stored -> {1}] : stored \in SUBSET PlayerNames}

\* connection.commit(): the open transaction becomes the stored table
commit(d) == [d EXCEPT !.committed = d.pending]

\* connection.rollback(): the open transaction is dropped
rollback(d) == [d EXCEPT !.pending = d.committed]

\* DatabaseManager.query with an UPDATE: executed, never committed
query_update(d, name, team_id) ==
    [d EXCEPT !.pending = [@ EXCEPT ![name] = team_id],
              !.updated = (name :> team_id) @@ @]

\* DatabaseManager.insert_data: execute and commit, or roll back and raise
insert_data_players(d, name, team_id, raises) ==
    IF raises THEN rollback(d)
    ELSE commit([d EXCEPT !.pending = (name :> team_id) @@ @])

\* the body of "for player in players"
store_player(d, name, team_id, outcome) ==
    LET done == [d EXCEPT !.processed = @ \cup {name}]
    IN  IF outcome = "select_raises" THEN done
        ELSE IF name \in DOMAIN d.pending
        THEN query_update(done, name, team_id)
        ELSE insert_data_players(done, name, team_id,
                                 outcome = "insert_raises")

\* DatabaseManager.disconnect: connection.close() without a commit
disconnect_players(d) ==
    [rollback(d) EXCEPT !.connection = disconnect(d.connection)]

NewPlayersDb(table) ==
    [committed |-> table, pending |-> table, updated |-> <<>>,
     processed |-> {}, connection |-> "open"]

\* one player of the list returned by extract_all_rosters_for_season
StorePlayer ==
    \E name \in PlayerNames \ players_db.processed, team_id \in TeamIds,
       outcome \in StoreOutcomes :
        /\ players_db.connection = "open"
        /\ players_db' = store_player(players_db, name, team_id, outcome)
        /\ UNCHANGED except_players_db

\* the end of main: "finally: if db: db.disconnect()"
Disconnect ==
    /\ players_db.connection = "open"
    /\ players_db' = disconnect_players(players_db)
    /\ UNCHANGED except_players_db

PlayersDbIdle == players_db = NewPlayersDb(<<>>)

PlayersDbInit == \E table \in PlayerTables : players_db = NewPlayersDb(table)

RunIdle ==
    /\ SeasonIdle /\ RostersIdle /\ ValidatorIdle /\ TeamsIdle
    /\ PipelineIdle /\ PlayersDbIdle

----------------------------------------------------------------------------
(* Repeated points evaluations on one calculator *)

\* the five calculate_*_points methods and the terms each adds up
CategoryTerms ==
    [calculate_passing_points |-> PassingTerms,
     calculate_rushing_points |-> RushingTerms,
     calculate_receiving_points |-> ReceivingTerms,
     calculate_defensive_points |-> DefensiveTerms,
     calculate_special_teams_points |-> SpecialTeamsTerms]

CategoryFunctions == DOMAIN CategoryTerms

\* a statistics dict handed to the calculators together with the statistics
\* tables the database holds
CalcCases ==
    {<<[passing_yards |-> 300, passing_tds |-> 2, interceptions |-> 1,
        fumbles_lost |-> 1],
       [t \in StatTables |->
          IF t = "passing_stats"
          THEN <<1, 1>> :> [passing_yards |-> 300, passing_tds |-> 2,
                            interceptions |-> 1]
          ELSE IF t = "rushing_stats"
          THEN <<1, 1>> :> [rushing_yards |-> 20, rushing_tds |-> 0,
                            fumbles_lost |-> 0]
          ELSE EmptyDict]>>,
     <<[rushing_yards |-> 20, receptions |-> 4, receiving_yards |-> 40,
        two_point_conversions |-> 1],
       [t \in StatTables |->
          IF t = "defensive_stats"
          THEN <<2, 1>> :> [tackles_solo |-> 2, sacks |-> 1, interceptions |-> 0]
          ELSE IF t = "passing_stats"
          THEN <<2, 1>> :> [passing_yards |-> 0, passing_tds |-> 0,
                            interceptions |-> 1]
          ELSE EmptyDict]>>,
     <<EmptyDict, [t \in StatTables |-> EmptyDict]>>,
     <<[tackles_solo |-> 2, sacks |-> 1, kick_return_tds |-> 1],
       [t \in StatTables |->
          IF t = "defensive_stats"
          THEN <<1, 2>> :> [tackles_solo |-> 2, sacks |-> 0, interceptions |-> 0]
          ELSE IF t = "return_stats"
          THEN <<1, 2>> :> [kick_return_tds |-> 1, punt_return_tds |-> 0]
          ELSE EmptyDict]>>}

\* the rule tables of RuleTables, and a table edited so that it has no entry
\* for passing touchdowns and for sacks
CalcRuleTables ==
    RuleTables \cup {Pop(Pop(FANTASY_SCORING, "passing_tds"), "sacks")}

NoEvaluation ==
    [func |-> "none", player_id |-> 0, game_id |-> 0, none |-> FALSE,
     raised |-> FALSE, points |-> <<>>]

\* a call of one of the calculate_*_points methods on the statistics dict
category_evaluation(func) ==
    LET returned == calculate_points(stats, scoring_rules, CategoryTerms[func])
    IN  [func |-> func, player_id |-> 0, game_id |-> 0, none |-> FALSE,
         raised |-> returned.raised, points |-> <<returned.points>>]

\* a call of calculate_player_game_points on the stored statistics
player_game_evaluation(pg) ==
    LET returned == calculate_player_game_points(stat_rows, scoring_rules, pg)
    IN  [func |-> "calculate_player_game_points", player_id |-> pg[1],
         game_id |-> pg[2], none |-> returned.none, raised |-> FALSE,
         points |-> <<returned.passing_points, returned.rushing_points,
                      returned.receiving_points, returned.defensive_points,
                      returned.special_teams_points, returned.total_points>>]

EvaluationKey(e) == <<e.func, e.player_id, e.game_id>>

\* an evaluation: nothing of the calculator or the database is assigned
evaluate(e) ==
    /\ evaluations < MaxEvaluations
    /\ evaluation' = e
    /\ evaluated' = IF EvaluationKey(e) \in DOMAIN evaluated THEN evaluated
                    ELSE Put(evaluated, EvaluationKey(e), e)
    /\ evaluations' = evaluations + 1
    /\ UNCHANGED <<points_vars, bulk_vars, storage_vars, table_vars, week_vars,
                   scoreboard_vars, by_week_vars, run_vars>>

CalculateCategoryPoints ==
    \E func \in CategoryFunctions : evaluate(category_evaluation(func))

CalculatePlayerGamePoints ==
    \E pg \in PlayerGames : evaluate(player_game_evaluation(pg))

CalcIdle ==
    /\ evaluation = NoEvaluation
    /\ evaluated = EmptyDict
    /\ evaluations = 0

\* a calculator with any of the rule tables, about to be called on any of the
\* statistics dicts, over the database that goes with it
CalcInit ==
    /\ \E case \in CalcCases :
        /\ stats = case[1]
        /\ stat_rows = case[2]
    /\ scoring_rules \in CalcRuleTables
    /\ result = NoResult
    /\ fantasy_points = <<>>
    /\ unique_player_game = FALSE
    /\ stale = {}
    /\ db_op = NoDbOp
    /\ stores = 0
    /\ runs = 0
    /\ CalcIdle

OtherIdle ==
    /\ CalcIdle /\ StorageIdle /\ TableIdle /\ WeekIdle /\ ScoreboardIdle
    /\ ByWeekIdle /\ RunIdle

----------------------------------------------------------------------------
(* Specifications *)

\* the limiter driven directly
Init == LimiterInit /\ FetchInit /\ PointsIdle /\ BulkIdle /\ OtherIdle

Next ==
    \/ WaitForRequest /\ UNCHANGED <<points_vars, bulk_vars, other_vars>>
    \/ ResetDomain /\ UNCHANGED <<points_vars, bulk_vars, other_vars>>

Spec == Init /\ [][Next]_vars

\* a wait_for_request call that reports a success with status 200 or 201
SuccessfulRequest(domain) ==
    \E status_code \in OkStatuses, time_since_last \in ElapsedChoices :
        /\ (domain \notin last_request_times => time_since_last = 0)
        /\ wait_for_request(domain, TRUE, status_code, time_since_last)
        /\ UNCHANGED <<fetch_vars, points_vars, bulk_vars, other_vars>>

\* the limiter's calls while no domain has more than MaxLiveErrors errors
LiveNext ==
    \/ /\ WaitForRequest
       /\ \A domain \in Domains :
              Get(consecutive_errors', domain, 0) <= MaxLiveErrors
       /\ UNCHANGED <<points_vars, bulk_vars, other_vars>>
    \/ ResetDomain /\ UNCHANGED <<points_vars, bulk_vars, other_vars>>

\* the limiter with callers that keep reporting: a domain whose requests
\* succeed goes on being requested
LiveSpec ==
    /\ Init /\ [][LiveNext]_vars
    /\ \A domain \in Domains : WF_vars(SuccessfulRequest(domain))

\* the fetchers driving the limiter
FetchNext ==
    \/ ExtractTeamRoster /\ UNCHANGED <<points_vars, bulk_vars, other_vars>>
    \/ ExtractGameStats /\ UNCHANGED <<points_vars, bulk_vars, other_vars>>
    \/ MakeRequest /\ UNCHANGED <<points_vars, bulk_vars, other_vars>>

FetchSpec == Init /\ [][FetchNext]_vars

\* a calculate_*_points call on any statistics dict
PointsSpecInit == LimiterInit /\ FetchInit /\ PointsInit /\ BulkIdle /\ OtherIdle

PointsNext ==
    \/ CalculatePassingPoints /\ UNCHANGED <<limiter_vars, fetch_vars, bulk_vars, other_vars>>

PointsSpec == PointsSpecInit /\ [][PointsNext]_vars

\* loaders and bulk_calculate_fantasy_points runs on one database
BulkSpecInit == LimiterInit /\ FetchInit /\ PointsIdle /\ BulkInit /\ OtherIdle

BulkNext ==
    \/ StoreStats /\ UNCHANGED <<limiter_vars, fetch_vars, stats, result, other_vars>>
    \/ BulkCalculateFantasyPoints
        /\ UNCHANGED <<limiter_vars, fetch_vars, stats, result, other_vars>>

BulkSpec == BulkSpecInit /\ [][BulkNext]_vars

\* repeated evaluations on one calculator
CalcSpecInit ==
    /\ LimiterInit /\ FetchInit /\ CalcInit
    /\ StorageIdle /\ TableIdle /\ WeekIdle /\ ScoreboardIdle /\ ByWeekIdle
    /\ RunIdle

CalcNext ==
    \/ CalculateCategoryPoints /\ UNCHANGED <<limiter_vars, fetch_vars>>
    \/ CalculatePlayerGamePoints /\ UNCHANGED <<limiter_vars, fetch_vars>>

CalcSpec == CalcSpecInit /\ [][CalcNext]_vars

\* inserts into one table
StorageNext ==
    \/ InsertBulkData
        /\ UNCHANGED <<limiter_vars, fetch_vars, points_vars, bulk_vars>>
    \/ InsertData
        /\ UNCHANGED <<limiter_vars, fetch_vars, points_vars, bulk_vars>>

StorageSpec == Init /\ [][StorageNext]_vars

\* _extract_stats_table on any of the documents
TableSpecInit ==
    /\ LimiterInit /\ FetchInit /\ PointsIdle /\ BulkIdle
    /\ CalcIdle /\ StorageIdle /\ TableInit /\ WeekIdle /\ ScoreboardIdle
    /\ ByWeekIdle /\ RunIdle

TableNext ==
    \/ ExtractStatsTable
        /\ UNCHANGED <<limiter_vars, fetch_vars, points_vars, bulk_vars>>

TableSpec == TableSpecInit /\ [][TableNext]_vars

\* _extract_week_from_event on any of the events
WeekSpecInit ==
    /\ LimiterInit /\ FetchInit /\ PointsIdle /\ BulkIdle
    /\ CalcIdle /\ StorageIdle /\ TableIdle /\ WeekInit /\ ScoreboardIdle
    /\ ByWeekIdle /\ RunIdle

WeekNext ==
    \/ ExtractWeekFromEvent
        /\ UNCHANGED <<limiter_vars, fetch_vars, points_vars, bulk_vars>>

WeekSpec == WeekSpecInit /\ [][WeekNext]_vars

\* _process_scoreboard_data on any of the responses
ScoreboardSpecInit ==
    /\ LimiterInit /\ FetchInit /\ PointsIdle /\ BulkIdle
    /\ CalcIdle /\ StorageIdle /\ TableIdle /\ WeekIdle /\ ScoreboardInit
    /\ ByWeekIdle /\ RunIdle

ScoreboardNext ==
    \/ ProcessScoreboardData
        /\ UNCHANGED <<limiter_vars, fetch_vars, points_vars, bulk_vars>>

ScoreboardSpec == ScoreboardSpecInit /\ [][ScoreboardNext]_vars

\* one _extract_games_by_week call
ByWeekNext ==
    \/ ExtractGamesByWeek
        /\ UNCHANGED <<limiter_vars, fetch_vars, points_vars, bulk_vars>>
    \/ RequestWeek
        /\ UNCHANGED <<limiter_vars, fetch_vars, points_vars, bulk_vars>>

ByWeekSpec == Init /\ [][ByWeekNext]_vars

\* one extract_games_for_season call
SeasonNext ==
    \/ ExtractGamesForSeason
        /\ UNCHANGED <<limiter_vars, fetch_vars, points_vars, bulk_vars>>

SeasonSpec == Init /\ [][SeasonNext]_vars

\* roster extractions on one PlayersExtractor
RostersSpecInit ==
    /\ LimiterInit /\ FetchInit /\ PointsIdle /\ BulkIdle
    /\ CalcIdle /\ StorageIdle /\ TableIdle /\ WeekIdle /\ ScoreboardIdle
    /\ ByWeekIdle /\ SeasonIdle /\ RostersInit /\ ValidatorIdle /\ TeamsIdle
    /\ PipelineIdle /\ PlayersDbIdle

RostersNext ==
    \/ ExtractRoster
        /\ UNCHANGED <<limiter_vars, fetch_vars, points_vars, bulk_vars>>
    \/ ExtractAllRostersForSeason
        /\ UNCHANGED <<limiter_vars, fetch_vars, points_vars, bulk_vars>>

RostersSpec == RostersSpecInit /\ [][RostersNext]_vars

\* one validate_* call on a DataValidator
ValidatorSpecInit ==
    /\ LimiterInit /\ FetchInit /\ PointsIdle /\ BulkIdle
    /\ CalcIdle /\ StorageIdle /\ TableIdle /\ WeekIdle /\ ScoreboardIdle
    /\ ByWeekIdle /\ SeasonIdle /\ RostersIdle /\ ValidatorInit /\ TeamsIdle
    /\ PipelineIdle /\ PlayersDbIdle

ValidatorNext ==
    \/ ValidateStatsData
        /\ UNCHANGED <<limiter_vars, fetch_vars, points_vars, bulk_vars>>
    \/ ValidateFantasyPoints
        /\ UNCHANGED <<limiter_vars, fetch_vars, points_vars, bulk_vars>>
    \/ ValidateGameData
        /\ UNCHANGED <<limiter_vars, fetch_vars, points_vars, bulk_vars>>
    \/ ValidatePlayerData
        /\ UNCHANGED <<limiter_vars, fetch_vars, points_vars, bulk_vars>>
    \/ ValidateTeamData
        /\ UNCHANGED <<limiter_vars, fetch_vars, points_vars, bulk_vars>>

ValidatorSpec == ValidatorSpecInit /\ [][ValidatorNext]_vars

\* one extract_and_validate_teams call
TeamsNext ==
    \/ ExtractAndValidateTeams
        /\ UNCHANGED <<limiter_vars, fetch_vars, points_vars, bulk_vars>>

TeamsSpec == Init /\ [][TeamsNext]_vars

\* one run of main
PipelineSpecInit ==
    /\ LimiterInit /\ FetchInit /\ PointsIdle /\ BulkIdle
    /\ CalcIdle /\ StorageIdle /\ TableIdle /\ WeekIdle /\ ScoreboardIdle
    /\ ByWeekIdle /\ SeasonIdle /\ RostersIdle /\ ValidatorIdle /\ TeamsIdle
    /\ PipelineInit /\ PlayersDbIdle

PipelineNext ==
    \/ InitializeDatabase
        /\ UNCHANGED <<limiter_vars, fetch_vars, points_vars, bulk_vars>>
    \/ ExtractAndStoreTeams
        /\ UNCHANGED <<limiter_vars, fetch_vars, points_vars, bulk_vars>>
    \/ ExtractAndStoreGames
        /\ UNCHANGED <<limiter_vars, fetch_vars, points_vars, bulk_vars>>
    \/ ExtractAndStorePlayers
        /\ UNCHANGED <<limiter_vars, fetch_vars, points_vars, bulk_vars>>
    \/ ValidateDatabaseCompleteness
        /\ UNCHANGED <<limiter_vars, fetch_vars, points_vars, bulk_vars>>

PipelineSpec == PipelineSpecInit /\ [][PipelineNext]_vars

\* the players stage of one run, then the disconnect
PlayersDbSpecInit ==
    /\ LimiterInit /\ FetchInit /\ PointsIdle /\ BulkIdle
    /\ CalcIdle /\ StorageIdle /\ TableIdle /\ WeekIdle /\ ScoreboardIdle
    /\ ByWeekIdle /\ SeasonIdle /\ RostersIdle /\ ValidatorIdle /\ TeamsIdle
    /\ PipelineIdle /\ PlayersDbInit

PlayersDbNext ==
    \/ StorePlayer
        /\ UNCHANGED <<limiter_vars, fetch_vars, points_vars, bulk_vars>>
    \/ Disconnect
        /\ UNCHANGED <<limiter_vars, fetch_vars, points_vars, bulk_vars>>

PlayersDbSpec == PlayersDbSpecInit /\ [][PlayersDbNext]_vars

----------------------------------------------------------------------------
(* Claims about the adaptive rate limiter, checked under Spec *)

\* what a step's call reports
IsWait(c) == c.op = "wait_for_request"

IsRateLimited(c) == IsWait(c) /\ c.status_code \in {429, 502, 503}

IsSuccess(c) == IsWait(c) /\ c.success /\ c.status_code \in {200, 201}

IsOtherFailure(c) == IsWait(c) /\ ~c.success /\ c.status_code \notin {429, 502, 503}

\* C1: a call reporting 429, 502 or 503 increments the domain's error count by
\* one and stores min(base_interval * 2^errors, max_interval); when the domain
\* has a recorded request time, the call returns no earlier than that interval
\* after it, which is more than base_interval.
C1_RateLimitedBackoff ==
    [][IsRateLimited(call') =>
        LET d == call'.domain
            n == Get(consecutive_errors, d, 0) + 1
            backoff == Min(base_interval * (2 ^ n), max_interval)
        IN  /\ Get(consecutive_errors', d, 0) = n
            /\ Get(current_intervals', d, 0) = backoff
            /\ call'.had_last = (d \in last_request_times)
            /\ call'.had_last =>
                  /\ call'.elapsed + call'.slept >= backoff
                  /\ call'.elapsed + call'.slept > base_interval
      ]_vars

\* C1 witness: the second consecutive 503 of a domain, base_interval 1.0 s: the
\* call slept and returned 4.0 s or more after the previous one.
C1_Witness ==
    /\ IsRateLimited(call)
    /\ call.status_code = 503
    /\ Get(consecutive_errors, call.domain, 0) = 2
    /\ Get(current_intervals, call.domain, 0) = 4 * base_interval
    /\ call.had_last
    /\ call.slept > 0
    /\ call.elapsed + call.slept >= 4 * Scale

\* C2: the interval stored for every domain is at most max_interval.
C2_IntervalAtMostMax ==
    \A d \in DOMAIN current_intervals : current_intervals[d] <= max_interval

\* C3: a call reporting a success (flag true, status 200 or 201) never leaves
\* the domain with a longer interval: with a positive error count the count
\* drops by one and the interval becomes base_interval * 2^(new count); with a
\* zero count neither changes.
C3_SuccessNeverLengthens ==
    [][IsSuccess(call') =>
        LET d == call'.domain
            before == Get(current_intervals, d, base_interval)
            errors == Get(consecutive_errors, d, 0)
        IN  /\ Get(current_intervals', d, 0) <= before
            /\ errors > 0 =>
                  /\ Get(consecutive_errors', d, 0) = errors - 1
                  /\ Get(current_intervals', d, 0) = base_interval * (2 ^ (errors - 1))
            /\ errors = 0 =>
                  /\ Get(consecutive_errors', d, 0) = 0
                  /\ Get(current_intervals', d, 0) = before
      ]_vars

\* C4: a call reporting a failure whose status is not 429, 502 or 503 stores
\* min(current_interval * 1.5, max_interval), current_interval being the
\* interval stored before the call (base_interval if none).
C4_SoftBackoff ==
    [][IsOtherFailure(call') =>
        LET d == call'.domain
            before == Get(current_intervals, d, base_interval)
        IN  2 * Get(current_intervals', d, 0) = Min(3 * before, 2 * max_interval)
      ]_vars

\* C4 witness: a second failure without a rate-limit status in a row has taken
\* the interval from 1.5 to 2.25 times base_interval.
C4_Witness ==
    /\ IsOtherFailure(call)
    /\ Get(consecutive_errors, call.domain, 0) = 2
    /\ 4 * Get(current_intervals, call.domain, 0) = 9 * base_interval

\* what is stored for a domain
Stored(intervals, errors, last, d) ==
    <<d \in DOMAIN intervals, Get(intervals, d, 0),
      d \in DOMAIN errors, Get(errors, d, 0), d \in last>>

Unseen(intervals, errors, last, d) ==
    Stored(intervals, errors, last, d) = <<FALSE, 0, FALSE, 0, FALSE>>

\* C5: reset_domain(d) removes d's interval, error count and last-request time
\* and changes nothing stored for another domain; a wait_for_request for a
\* domain with nothing stored does not sleep and starts from base_interval and
\* zero errors.
C5_ResetDomain ==
    [][/\ call'.op = "reset_domain" =>
            /\ Unseen(current_intervals', consecutive_errors',
                      last_request_times', call'.domain)
            /\ \A e \in Domains \ {call'.domain} :
                  Stored(current_intervals', consecutive_errors',
                         last_request_times', e)
                  = Stored(current_intervals, consecutive_errors,
                           last_request_times, e)
       /\ (/\ IsWait(call')
           /\ call.op = "reset_domain"
           /\ call.domain = call'.domain) =>
            LET d == call'.domain
            IN  /\ call'.slept = 0
                /\ d \in last_request_times'
                /\ IsRateLimited(call') =>
                      /\ Get(consecutive_errors', d, 0) = 1
                      /\ Get(current_intervals', d, 0) = Min(2 * base_interval, max_interval)
                /\ IsOtherFailure(call') =>
                      /\ Get(consecutive_errors', d, 0) = 1
                      /\ 2 * Get(current_intervals', d, 0) = Min(3 * base_interval, 2 * max_interval)
                /\ (~IsRateLimited(call') /\ ~IsOtherFailure(call')) =>
                      /\ Get(consecutive_errors', d, 0) = 0
                      /\ Get(current_intervals', d, 0) = base_interval
      ]_vars

\* C5 witness: a domain that had a request time has just been reset and holds
\* nothing, while the other keeps its backed-off interval, its error count and
\* its request time.
C5_Witness ==
    /\ call.op = "reset_domain"
    /\ call.had_last
    /\ Unseen(current_intervals, consecutive_errors, last_request_times, call.domain)
    /\ \E e \in Domains \ {call.domain} :
          /\ Get(consecutive_errors, e, 0) = 3
          /\ Get(current_intervals, e, 0) = 8 * base_interval
          /\ e \in last_request_times

----------------------------------------------------------------------------
(* Claims about the fetchers, checked under FetchSpec *)

\* a timeout or connection exception of the HTTP call, a 5xx status, or 429
IsTransient(f) ==
    /\ f.fetcher # "none"
    /\ \/ f.raised
       \/ f.status_code = 429
       \/ f.status_code \in 500..599

\* C6: a fetch that ends in a transient error hands its caller the empty
\* result, raises nothing, and leaves the domain with a longer interval than
\* before the fetch, unless that interval was already max_interval or more.
C6_TransientErrorBacksOff ==
    [][IsTransient(fetch') =>
        LET d == FetcherDomain[fetch'.fetcher]
            before == Get(current_intervals, d, base_interval)
        IN  /\ fetch'.returned = "empty"
            /\ ~fetch'.propagated
            /\ \/ Get(current_intervals', d, base_interval) > before
               \/ before >= max_interval
      ]_vars

----------------------------------------------------------------------------
(* Claims about the points calculator, checked under PointsSpec *)

\* C7: calculate_passing_points(stats) is, to 2 decimals, passing_yards *
\* w[passing_yards] + passing_tds * w[passing_tds] + interceptions *
\* w[interceptions_thrown] + two_point_conversions * w[two_point_pass], an
\* absent statistic counting as 0 and no other key counting; weights 0.04, 4.0
\* and -2.0 on {passing_yards: 300, passing_tds: 2, interceptions: 1} give 18.0.
C7_PassingPoints ==
    result.func = "calculate_passing_points" =>
        LET v(k) == IF k \in DOMAIN stats THEN stats[k] ELSE 0
            w == scoring_rules
            exact == v("passing_yards") * w.passing_yards
                     + v("passing_tds") * w.passing_tds
                     + v("interceptions") * w.interceptions_thrown
                     + v("two_point_conversions") * w.two_point_pass
            diff == result.points - exact
        IN  /\ ~result.raised
            /\ result.points % 10 = 0
            /\ -5 <= diff /\ diff <= 5
            /\ (/\ stats = [passing_yards |-> 300, passing_tds |-> 2,
                            interceptions |-> 1]
                /\ w.passing_yards = 40
                /\ w.passing_tds = 4000
                /\ w.interceptions_thrown = -2000) => result.points = 18000

\* C7 witness: the scenario of the claim has been calculated and gave 18.0.
C7_Witness ==
    /\ result.func = "calculate_passing_points"
    /\ scoring_rules = FANTASY_SCORING
    /\ stats = [passing_yards |-> 300, passing_tds |-> 2, interceptions |-> 1]
    /\ result.points = 18000

----------------------------------------------------------------------------
(* Claims about bulk_calculate_fantasy_points, checked under BulkSpec *)

IsBulkRun(op) == op.op = "bulk_calculate_fantasy_points"

\* number of fantasy_points rows of a pair
RecordCount(table, pg) ==
    Cardinality({n \in 1..Len(table) :
                    table[n].player_id = pg[1] /\ table[n].game_id = pg[2]})

\* the pairs a run with this season argument ranges over
InScope(season, pg) == season = NoSeason \/ GameRows[pg[2]].season = season

\* C8: after a bulk run every pair it processed whose combined total is
\* non-zero, positive or negative, has exactly one fantasy_points row, and no
\* processed pair whose combined total is zero has one.
C8_NonZeroTotalsStoredOnce ==
    IsBulkRun(db_op) =>
        \A pg \in db_op.processed :
            LET points == calculate_player_game_points(stat_rows, scoring_rules, pg)
            IN  /\ (~points.none /\ points.total_points # 0) =>
                      RecordCount(fantasy_points, pg) = 1
                /\ (~points.none /\ points.total_points = 0) =>
                      RecordCount(fantasy_points, pg) = 0

\* C9: with or without a season filter, the pairs a bulk run computes are
\* exactly the pairs (of the season) that have no fantasy_points row yet.
C9_OnlyPairsWithoutRecord ==
    [][IsBulkRun(db_op') =>
        db_op'.processed =
            {pg \in PlayerGames : /\ InScope(db_op'.season, pg)
                                  /\ RecordCount(fantasy_points, pg) = 0}
      ]_vars

\* C10 as stated: after a bulk run, a pair of its scope whose statistics
\* changed after its row was stored (and still total more than zero) has
\* exactly one row, and the row holds the totals of the current statistics.
C10_RecomputeAndReplace ==
    IsBulkRun(db_op) =>
        \A pg \in stale :
            LET points == calculate_player_game_points(stat_rows, scoring_rules, pg)
            IN  (InScope(db_op.season, pg) /\ points.total_points > 0) =>
                    /\ RecordCount(fantasy_points, pg) = 1
                    /\ \A n \in 1..Len(fantasy_points) :
                          (/\ fantasy_points[n].player_id = pg[1]
                           /\ fantasy_points[n].game_id = pg[2]) =>
                              fantasy_points[n] = fantasy_record(pg, points)

\* C10 as amended: a bulk run only adds rows. Every row stored before the run
\* is still there unchanged after it, and a run with a season filter adds no
\* row for a pair that has one: the row of a pair whose statistics changed
\* keeps the totals it was stored with.
C10_StoredRowsKept ==
    [][IsBulkRun(db_op') =>
        /\ Len(fantasy_points') >= Len(fantasy_points)
        /\ SubSeq(fantasy_points', 1, Len(fantasy_points)) = fantasy_points
        /\ db_op'.season # NoSeason =>
              \A pg \in PlayerGames :
                  RecordCount(fantasy_points, pg) > 0 =>
                      RecordCount(fantasy_points', pg)
                      = RecordCount(fantasy_points, pg)
      ]_vars

\* C10 witness: after a bulk run over its season, a pair whose statistics
\* changed still has its one row, whose total is not the current total.
C10_Witness ==
    /\ IsBulkRun(db_op)
    /\ \E pg \in stale :
          LET points == calculate_player_game_points(stat_rows, scoring_rules, pg)
          IN  /\ InScope(db_op.season, pg)
              /\ points.total_points > 0
              /\ RecordCount(fantasy_points, pg) = 1
              /\ \E n \in 1..Len(fantasy_points) :
                    /\ fantasy_points[n].player_id = pg[1]
                    /\ fantasy_points[n].game_id = pg[2]
                    /\ fantasy_points[n].total_points # points.total_points

----------------------------------------------------------------------------
(* Claims about repeated points evaluations, checked under CalcSpec *)

IsEvaluation == evaluations' = evaluations + 1

RECURSIVE zero_default_sum(_, _, _, _)
zero_default_sum(s, rules, terms, n) ==
    IF n = 0 THEN 0
    ELSE zero_default_sum(s, rules, terms, n - 1)
         + Get(s, terms[n][1], 0) * Get(rules, terms[n][2], 0)

\* C12: when the scoring-rule table has no entry for a weight that a
\* calculate_*_points method reads, the method does not fail: it returns the
\* category total in which that weight counts as zero.
C12_MissingWeightScoresZero ==
    evaluation.func \in CategoryFunctions =>
        LET terms == CategoryTerms[evaluation.func]
        IN  /\ ~evaluation.raised
            /\ evaluation.points =
                 <<Round2(zero_default_sum(stats, scoring_rules, terms,
                                           Len(terms)))>>

----------------------------------------------------------------------------
(* Claims about the storage calls, checked under StorageSpec *)

\* C13: insert_bulk_data is idempotent: inserting the same list of records a
\* second time raises no error and adds no row, so the row count after two
\* applications is the row count after one.
C13_BulkInsertIdempotent ==
    storage_op.reapplied => ~storage_op.raised /\ storage_op.added = 0

\* C13 witness: a list of two records that was stored has been inserted again.
C13_Witness ==
    /\ storage_op.reapplied
    /\ Len(storage_op.data) = 2
    /\ Len(table_rows) = 2

\* C14: every record of a non-empty batch written with insert_bulk_data, or
\* written alone with insert_data, is read back by query with, for every
\* column it wrote, the value it held for that column, also when its keys are
\* listed in another order than the first record's.
C14_RoundTrip ==
    (/\ storage_op.op \in {"insert_bulk_data", "insert_data"}
     /\ ~storage_op.raised
     /\ storage_op.added = Len(storage_op.data)) =>
        LET read == query(table_rows)
            first == Len(read) - storage_op.added
        IN  \A k \in 1..Len(storage_op.data) :
                \A i \in 1..Len(storage_op.data[k]) :
                    read[first + k][storage_op.data[k][i][1]]
                        = storage_op.data[k][i][2]

----------------------------------------------------------------------------
(* Claims about _extract_stats_table, checked under TableSpec *)

\* the body rows of the table that was read which hold cells and are not
\* repeated header rows
HasCells(row) == row.cells # <<>> /\ row.class # "thead"

CellRows == SelectSeq(soup[extracted.table].rows, HasCells)

HeaderCells == soup[extracted.table].header

HasPlayerLink(row) == \E i \in 1..Len(row.cells) : row.cells[i].href \in PlayerHrefs

\* what was read of a row: its cells, and its player link if it has one
ReadLength(row) == Len(row.cells) + (IF HasPlayerLink(row) THEN 1 ELSE 0)

SixColumns == <<"Player", "Tm", "G", "Att", "Yds", "TD">>

SixCells ==
    BodyRow("", <<Name, Team, Number("1"), Number("12"), Number("4.5"),
                  Number("1")>>)

ThreeCells == BodyRow("", <<Team, Number("1"), Number("12")>>)

ColumnOf(p) == Cardinality({i \in 1..p : HeaderCells[i] # "Rk"})

\* C16: in every record the value under a header name is the converted text
\* of the body cell at that header cell's position, also when the header row
\* has a rank cell, and the player link of a row is the value of its
\* player_link column and of no other, also for a short row.
C16_ColumnAssociation ==
    (extracted.called /\ ~extracted.none) =>
        \A k \in 1..Len(extracted.rows) :
            LET record == extracted.rows[k]
                row == CellRows[k]
                last == Len(extracted.headers)
            IN  /\ \A p \in 1..Len(HeaderCells) :
                       (HeaderCells[p] # "Rk" /\ p <= Len(row.cells)) =>
                           record[ColumnOf(p)] = convert(row.cells[p].text)
                /\ HasPlayerLink(row) =>
                       /\ extracted.headers[last] = "player_link"
                       /\ record[last].text \in PlayerHrefs
                       /\ \A j \in 1..(last - 1) :
                              record[j].text \notin PlayerHrefs

\* C17 as stated: a requested identifier that no table has falls back to the
\* first table of the document, and the lack of a table is the result only
\* for a document without tables.
C17_FallsBackToFirstTable ==
    extracted.called =>
        /\ (table_id # NoTableId /\ soup # <<>>) =>
               extracted.table =
                   IF \E i \in 1..Len(soup) : soup[i].id = table_id
                   THEN FirstWhere({i \in 1..Len(soup) : soup[i].id = table_id})
                   ELSE 1
        /\ extracted.warning = "No stats table found" => soup = <<>>

\* C17 (amended): with a table identifier the table read is the first one
\* with that id, and none when no table has it, whatever other tables the
\* document holds; without an identifier it is the first table of class
\* stats_table, else the first table of the document, and none only when
\* the document has no table.
C17_TableLookup ==
    extracted.called =>
        LET with_id == {i \in 1..Len(soup) : soup[i].id = table_id}
            with_class == {i \in 1..Len(soup) : soup[i].class = "stats_table"}
        IN  /\ table_id # NoTableId =>
                /\ with_id # {} =>
                       extracted.table \in with_id
                       /\ \A i \in with_id : extracted.table <= i
                /\ with_id = {} =>
                       extracted.table = 0
                       /\ extracted.warning = "No stats table found"
            /\ table_id = NoTableId =>
                /\ with_class # {} =>
                       extracted.table \in with_class
                       /\ \A i \in with_class : extracted.table <= i
                /\ (with_class = {} /\ soup # <<>>) => extracted.table = 1
                /\ extracted.table = 0 <=> soup = <<>>

\* C17 witness: a table id was asked for in a document whose tables do not
\* have it, and no table was read.
C17_Witness ==
    /\ extracted.called
    /\ table_id = "stats"
    /\ Len(soup) = 1
    /\ soup[1].id = "passing"
    /\ extracted.table = 0

----------------------------------------------------------------------------
(* Claims about _extract_week_from_event, checked under WeekSpec *)

\* the week a stage produces, NoWeek when its field is absent, empty or
\* malformed
EntryWeek(entry) ==
    IF /\ entry.kind \in {"dict", "scalar"}
       /\ entry.value.type \in {"int", "digits"}
       /\ entry.value.number > 0
    THEN entry.value.number
    ELSE NoWeek

CompetitionWeek(e) ==
    IF e.competitions = <<>> THEN NoWeek ELSE EntryWeek(e.competitions[1].week)

SeasonWeek(e) ==
    IF ~e.season.present THEN NoWeek
    ELSE IF e.season.week.type \in {"int", "digits"} /\ e.season.week.number > 0
    THEN e.season.week.number
    ELSE IF e.season.slug.type = "digits" THEN e.season.slug.number
    ELSE NoWeek

DateWeek(e) ==
    IF /\ e.date.kind = "valid"
       /\ e.season.present
       /\ e.season.year.type = "int"
       /\ e.date.days >= 0
       /\ e.date.days < 22 * 7
    THEN (e.date.days \div 7) + 1
    ELSE NoWeek

WordsWeek(words) ==
    IF \E i \in 1..(Len(words) - 1) :
           words[i] = "Week" /\ words[i + 1] \in DOMAIN WordNumber
    THEN WordNumber[words[1 + CHOOSE i \in 1..(Len(words) - 1) :
                            /\ words[i] = "Week"
                            /\ words[i + 1] \in DOMAIN WordNumber
                            /\ \A j \in 1..(i - 1) :
                                   ~(/\ words[j] = "Week"
                                     /\ words[j + 1] \in DOMAIN WordNumber)]]
    ELSE NoWeek

TextWeek(e) ==
    IF WordsWeek(e.name) # NoWeek THEN WordsWeek(e.name)
    ELSE WordsWeek(e.shortName)

StageWeeks(e) ==
    <<EntryWeek(e.week), CompetitionWeek(e), SeasonWeek(e), DateWeek(e),
      TextWeek(e)>>

\* C18: _extract_week_from_event returns the week of the first of its five
\* stages (event.week, competitions[0].week, season week or slug, date
\* arithmetic, 'Week N' in name or shortName) that produces one; a stage
\* whose field is absent, empty or malformed hands over to the next; the
\* result is null only when no stage produces a week.
C18_FirstStageDecides ==
    week_result.called =>
        LET weeks == StageWeeks(event)
            producing == {n \in 1..Len(weeks) : weeks[n] # NoWeek}
        IN  week_result.week =
                IF producing = {} THEN NoWeek
                ELSE weeks[CHOOSE n \in producing : \A m \in producing : n <= m]

----------------------------------------------------------------------------
(* Claims about _process_scoreboard_data, checked under ScoreboardSpec *)

\* an event with an id, a date, a competition with two competitors, and a
\* home and an away team that both resolve to team ids
HasRequiredItems(e) ==
    /\ e.id.type # "none"
    /\ e.date.kind = "valid"
    /\ e.competitions # <<>>
    /\ Len(e.competitions[1].competitors) = 2
    /\ \E h, a \in 1..2 :
        LET home == e.competitions[1].competitors[h]
            away == e.competitions[1].competitors[a]
        IN  /\ home.homeAway = "home"
            /\ away.homeAway = "away"
            /\ team_code(home) \in DOMAIN team_mappings
            /\ team_code(away) \in DOMAIN team_mappings

\* C19: an event that lacks a required item produces no record and raises
\* nothing, every other event of the response still produces its record, in
\* response order, and an absent score, venue or week is a null field of the
\* record, not a skipped record.
C19_InvalidEventsSkipped ==
    (scoreboard_games.called /\ scoreboard_data.has_events) =>
        LET kept == SelectSeq(scoreboard_data.events, HasRequiredItems)
            games == scoreboard_games.games
        IN  /\ Len(games) = Len(kept)
            /\ \A k \in 1..Len(kept) :
                LET competition == kept[k].competitions[1]
                IN  /\ games[k].nfl_game_id = kept[k].id.number
                    /\ (\A i \in 1..2 : competition.competitors[i].score = Absent)
                           => /\ games[k].home_score = Absent
                              /\ games[k].away_score = Absent
                    /\ ~competition.venue.present =>
                           games[k].venue_name = NoneText
                    /\ (\A n \in 1..5 : StageWeeks(kept[k])[n] = NoWeek)
                           => games[k].week = NoWeek

\* C19 witness: a response of three events whose second lacks a required
\* item has given the records of the first and the third, the third with
\* null score, venue and week.
C19_Witness ==
    /\ scoreboard_games.called
    /\ Len(scoreboard_data.events) = 3
    /\ HasRequiredItems(scoreboard_data.events[1])
    /\ ~HasRequiredItems(scoreboard_data.events[2])
    /\ HasRequiredItems(scoreboard_data.events[3])
    /\ Len(scoreboard_games.games) = 2
    /\ scoreboard_games.games[1].home_score.type = "int"
    /\ scoreboard_games.games[2].nfl_game_id = 403
    /\ scoreboard_games.games[2].home_score = Absent
    /\ scoreboard_games.games[2].week = NoWeek
    /\ scoreboard_games.games[2].venue_name = NoneText

----------------------------------------------------------------------------
(* Claims about _extract_games_by_week, checked under ByWeekSpec *)

\* the games returned are those of the requested weeks that brought games,
\* in week order
ReturnsCollectedGames ==
    /\ {by_week.games[i] : i \in 1..Len(by_week.games)}
           = by_week.requested \ (by_week.failed \cup by_week.empty)
    /\ \A i, j \in 1..Len(by_week.games) :
           i < j => by_week.games[i] < by_week.games[j]

\* C20 as stated: a failure of the request for a week w never prevents the
\* request for the week after it, whatever w in 1..max_week, and the games
\* collected from the other weeks are returned.
C20_FailedWeekNeverEndsLoop ==
    by_week.pc = "returned" =>
        /\ \A w \in by_week.failed :
               w < max_week => (w + 1) \in by_week.requested
        /\ ReturnsCollectedGames

\* C20 amended: a failure of the request for a week up to 18 never prevents
\* the request for the week after it, so weeks 1..18 are always requested; a
\* failure for a week past 18 ends the loop, no later week is requested; the
\* games collected from the weeks requested are returned.
C20_FailedRegularWeekContinues ==
    by_week.pc = "returned" =>
        /\ \A w \in by_week.failed :
               IF w <= RegularSeasonWeeks
               THEN (w + 1) \in by_week.requested
               ELSE by_week.requested = 1..w
        /\ 1..RegularSeasonWeeks \subseteq by_week.requested
        /\ ReturnsCollectedGames

\* C20 witness: the call has returned after the request for a week up to 18
\* failed, with the games of a later week among those returned.
C20_Witness ==
    /\ by_week.pc = "returned"
    /\ \E w \in by_week.failed :
        /\ w <= RegularSeasonWeeks
        /\ \E i \in 1..Len(by_week.games) : by_week.games[i] > w

----------------------------------------------------------------------------
(* Claims about extract_games_for_season, checked under SeasonSpec *)

IsPrefix(a, b) == Len(a) <= Len(b) /\ SubSeq(b, 1, Len(a)) = a

\* C21: the call raises exactly when the regular-season request failed
\* (network error, error status or unparsable body); when only the playoff
\* request failed it returns a list that starts with the regular-season
\* games.
C21_PrimaryFailurePropagates ==
    season_games.called =>
        /\ season_games.raised <=> season_games.regular.kind # "ok"
        /\ (season_games.regular.kind = "ok"
            /\ season_games.playoff.kind # "ok")
               => /\ ~season_games.raised
                  /\ IsPrefix(season_games.regular.ids, season_games.games)
                  /\ season_games.others = season_games.regular.others

\* C21 witness: the playoff request failed after a regular-season response
\* with games, and the call returned them.
C21_Witness ==
    /\ season_games.called
    /\ season_games.regular.kind = "ok"
    /\ season_games.regular.ids # <<>>
    /\ season_games.playoff.kind # "ok"
    /\ ~season_games.raised
    /\ IsPrefix(season_games.regular.ids, season_games.games)

\* C30: the list returned holds no two games with the same nfl_game_id.
C30_NoDuplicateGameIds ==
    (season_games.called /\ ~season_games.raised) =>
        \A i, j \in 1..Len(season_games.games) :
            season_games.games[i] = season_games.games[j] => i = j

----------------------------------------------------------------------------
(* Claims about the roster extraction, checked under RostersSpec *)

\* the rows of the pages that give a player with key k, as players of the
\* team and season of a call
IsFirstOccurrence(player) ==
    \E n \in 1..Len(RosterTeams) :
        LET rows == rosters.pages[RosterTeams[n]]
        IN  \E i \in 1..Len(rows) :
            LET made == _process_player_row(rows[i], RosterTeams[n],
                                            player.season_extracted)
            IN  /\ made = player
                /\ \A j \in 1..(i - 1) :
                    LET earlier == _process_player_row(
                                       rows[j], RosterTeams[n],
                                       player.season_extracted)
                    IN  earlier.none
                        \/ player_key(earlier) # player_key(player)

\* C22: the players returned by the calls made so far never include two
\* with the same (name, normalized position, season); each is the player of
\* the first row of its page with that key, and what was returned stays as
\* it was returned.
C22_NoRepeatedKey ==
    /\ [](/\ \A i, j \in 1..Len(rosters.returned) :
                player_key(rosters.returned[i]) = player_key(rosters.returned[j])
                    => i = j
          /\ \A i \in 1..Len(rosters.returned) :
                IsFirstOccurrence(rosters.returned[i]))
    /\ [][SubSeq(rosters'.returned, 1, Len(rosters.returned))
              = rosters.returned]_vars

\* C22 witness: a call met a row whose key had been seen, dropped it, and
\* the player returned first is still the one returned.
C22_Witness ==
    /\ rosters.calls >= 2
    /\ rosters.last.op = "extract_team_roster"
    /\ rosters.last.fetched = <<TRUE>>
    /\ rosters.last.players = <<>>
    /\ \E i \in 1..Len(rosters.returned) :
        /\ rosters.returned[i].name = "Mahomes"
        /\ rosters.returned[i].jersey_number = 15
        /\ rosters.returned[i].season_extracted = rosters.last.season

\* C23: a second extract_all_rosters_for_season(s) on the same extractor,
\* every page fetched in both runs, returns the players the first run of s
\* returned.
C23_SecondRunReturnsSame ==
    LET first == rosters.first_run[rosters.last.season]
    IN  (/\ rosters.last.op = "extract_all_rosters_for_season"
         /\ \A n \in 1..Len(RosterTeams) :
                rosters.last.fetched[n] /\ first.fetched[n])
            => rosters.last.players = first.players

----------------------------------------------------------------------------
(* Claims about the DataValidator, checked under ValidatorSpec *)

\* C24: no validate_* call raises, whatever the records hold; it returns a
\* boolean.
C24_ValidateNeverRaises == ~validator.last.raised

\* the records of the call made last in which one count exceeds the other
CountExceeded(more, of) ==
    {i \in 1..Len(validator.last.records) :
        LET d == validator.last.records[i]
        IN  /\ more \in DOMAIN d /\ of \in DOMAIN d
            /\ d[more].type = "int" /\ d[of].type = "int"
            /\ d[more].number > d[of].number}

\* the entries a call appends for out-of-range values
RangeEntries == {"yards", "count", "weeks", "duplicate", "points"}

\* C25: a validate_* call returns False exactly when it appended an entry
\* to validation_errors; a missing required field, completions above
\* attempts and receptions above targets are errors; yardage, game count,
\* week number and duplicate player are warnings only.
C25_FalseIffErrorAppended ==
    (validator.last.method # "none" /\ ~validator.last.raised) =>
        /\ validator.last.returned <=> (validator.last.added_errors = {})
        /\ \A e \in validator.last.added_errors : e[1] \notin RangeEntries
        /\ validator.last.kind = "passing" =>
              \A i \in CountExceeded("completions", "attempts") :
                  <<"counts", i, "passing">> \in validator.last.added_errors
        /\ validator.last.kind = "receiving" =>
              \A i \in CountExceeded("receptions", "targets") :
                  <<"counts", i, "receiving">> \in validator.last.added_errors

----------------------------------------------------------------------------
(* Claims about extract_and_validate_teams, checked under TeamsSpec *)

\* C27: the call raises, or the list it returns is one validate_team_data
\* accepts: 32 teams, every required field non-empty, every expected code
\* present, conferences within AFC and NFC.
C27_ReturnsValidatedTeams ==
    (teams_run.called /\ ~teams_run.raised) =>
        /\ validate_team_data(teams_run.teams).returned
        /\ Len(teams_run.teams) = ExpectedTeams
        /\ \A i \in 1..Len(teams_run.teams) :
               /\ teams_run.teams[i]["team_name"] # ""
               /\ teams_run.teams[i]["conference"] \in {"AFC", "NFC"}
        /\ \A n \in 1..Len(NFL_TEAMS) :
               \E i \in 1..Len(teams_run.teams) :
                   teams_run.teams[i]["team_code"] = NFL_TEAMS[n].team_code

----------------------------------------------------------------------------
(* Claims about main of extract_all_data.py, checked under PipelineSpec *)

\* every insert of an extracted team failed and the teams table is empty
NoTeamStored ==
    /\ pipeline.extracted
    /\ pipeline.inserted_count = 0
    /\ pipeline.teams_table = {}

\* C26: when every team insert failed and the teams table is left empty,
\* main has returned 1 without running the games or the players stage;
\* whenever main has returned, no connection is left open.
C26_TeamStoreFailureIsFatal ==
    /\ NoTeamStored =>
           /\ pipeline.pc = "returned"
           /\ pipeline.exit_code = 1
           /\ pipeline.stages = <<"teams">>
    /\ pipeline.pc = "returned" => pipeline.connection # "open"

----------------------------------------------------------------------------
(* Claims about the players stage, checked under PlayersDbSpec *)

\* C29: after the disconnect, every stored player whose team the stage
\* updated has the team of its update in the database.
C29_ReassignmentsDurable ==
    players_db.connection = "closed" =>
        \A name \in DOMAIN players_db.updated :
            players_db.committed[name] = players_db.updated[name]

----------------------------------------------------------------------------
(* Recovery of the adaptive limiter, checked under LiveSpec *)

\* the step is no wait_for_request call for the domain that reports
\* anything but a success with status 200 or 201
OnlySuccesses(domain) ==
    (call'.op = "wait_for_request" /\ call'.domain = domain) =>
        (call'.success /\ call'.status_code \in OkStatuses)

Recovered(domain) ==
    /\ Get(consecutive_errors, domain, 0) = 0
    /\ Get(current_intervals, domain, base_interval) = base_interval

\* the step is a wait_for_request call for the domain that reports a
\* success with status 200 or 201
SuccessReported(domain) ==
    /\ call'.op = "wait_for_request" /\ call'.domain = domain
    /\ call'.success /\ call'.status_code \in OkStatuses

\* a reported success takes one error off a domain that has errors, and
\* leaves a recovered domain recovered
OneErrorLess(domain) ==
    SuccessReported(domain) =>
        /\ Get(consecutive_errors, domain, 0) > 0 =>
               /\ consecutive_errors'[domain] = consecutive_errors[domain] - 1
               /\ current_intervals'[domain] =
                      base_interval * (2 ^ consecutive_errors'[domain])
        /\ Recovered(domain) => Recovered(domain)'

\* C28: when from some point on every outcome reported for a domain is a
\* success with status 200 or 201, then from some point on the domain's
\* error count is 0 and its interval is base_interval; each such call
\* takes one error off the count, so that as many calls as the count was
\* bring it to 0, and further ones leave count and interval as they are.
C28_RecoveryIsLive ==
    /\ \A domain \in Domains :
           <>[][OnlySuccesses(domain)]_vars => <>[]Recovered(domain)
    /\ [][\A domain \in Domains : OneErrorLess(domain)]_vars

\* a success has been reported for a domain that had errors and has none
\* left
C28_Witness ==
    /\ call.op = "wait_for_request"
    /\ call.success /\ call.status_code \in OkStatuses
    /\ call.domain \in DOMAIN consecutive_errors
    /\ Recovered(call.domain)
====
